---- MODULE Spec2Model ----
(***************************************************************************)
(* Model of the popup-store extraction and integration pipeline:           *)
(*   processors/data_integrator.py   DataIntegrator                        *)
(*   processors/event_processor.py   EventProcessor                        *)
(*   extractors/date_extractor.py    DateExtractor                         *)
(*   models/event.py                 Event and its parts                   *)
(*                                                                         *)
(* Conventions.  A Python str is a tuple of one-character strings, so that *)
(* normalisation and SequenceMatcher work on characters.  A datetime used  *)
(* by the integrator is a day number 1..MaxDay and None is NoDate.  A      *)
(* float confidence is an integer number of tenths.  An attribute that     *)
(* holds None where an object is expected is a record with obj = FALSE.    *)
(***************************************************************************)
EXTENDS Integers, Sequences, FiniteSets, TLC

VARIABLES
    events,   \* the list handed to DataIntegrator.integrate_events
    runs,     \* per process run: outcome of integrate_events on that list
    ov,       \* one application of DataIntegrator._periods_overlap
    dx,       \* one application of DateExtractor.extract_dates
    pe,       \* one application of EventProcessor.process_event
    en,       \* one application of EventProcessor._enhance_with_ai
    lx,       \* one application of LocationExtractor.extract_location
    gs,       \* one application of GeminiService.analyze_event
    rt,       \* one Event taken through to_dict and from_dict
    sm        \* one application of DataIntegrator._are_events_similar

vars == <<events, runs, ov, dx, pe, en, lx, gs, rt, sm>>

(***************************************************************************)
(* Bounds                                                                  *)
(***************************************************************************)
MaxEvents == 3      \* longest list given to integrate_events
MaxDay == 6         \* day numbers used for the integrator's datetimes
MaxMentions == 2    \* date phrases in a text given to extract_dates

NoDate == 0         \* Python None in a date attribute

\* the default place and address of EventLocation, "undetermined" in Korean
Undetermined == "mijeong"

(***************************************************************************)
(* Generic helpers                                                         *)
(***************************************************************************)
Range(s) == {s[i] : i \in 1..Len(s)}

Abs(x) == IF x < 0 THEN -x ELSE x


RECURSIVE FilterSeq(_, _)
\* the elements of s that belong to the set keep, in order
FilterSeq(s, keep) ==
    IF s = <<>> THEN <<>>
    ELSE IF Head(s) \in keep THEN <<Head(s)>> \o FilterSeq(Tail(s), keep)
         ELSE FilterSeq(Tail(s), keep)

(***************************************************************************)
(* DataIntegrator._calculate_similarity                                    *)
(***************************************************************************)
\* characters deleted by re.sub(r'[\s\-_,\.;:\'"!?]+', '', s)
Punctuation == {" ", "-", "_", ",", ".", ";", ":", "'", "!", "?"}

\* str.lower() on the characters the titles use
Lower(c) ==
    CASE c = "A" -> "a"
      [] c = "B" -> "b"
      [] c = "C" -> "c"
      [] OTHER -> c

RECURSIVE Normalize(_)
\* re.sub(punctuation, '', s.lower())
Normalize(s) ==
    IF s = <<>> THEN <<>>
    ELSE IF Lower(Head(s)) \in Punctuation THEN Normalize(Tail(s))
         ELSE <<Lower(Head(s))>> \o Normalize(Tail(s))

\* a[i..i+k-1] = b[j..j+k-1]
BlockAt(a, b, i, j, k) ==
    /\ i + k - 1 <= Len(a)
    /\ j + k - 1 <= Len(b)
    /\ \A d \in 0..(k - 1) : a[i + d] = b[j + d]

\* SequenceMatcher.find_longest_match: the longest common block, the one
\* starting earliest in a, and of those the one starting earliest in b
LongestMatch(a, b) ==
    LET ks == {k \in 1..Len(a) :
                 \E i \in 1..Len(a), j \in 1..Len(b) : BlockAt(a, b, i, j, k)}
    IN  IF ks = {} THEN [i |-> 1, j |-> 1, k |-> 0]
        ELSE LET k == CHOOSE x \in ks : \A y \in ks : y <= x
                 is == {i \in 1..Len(a) : \E j \in 1..Len(b) : BlockAt(a, b, i, j, k)}
                 i == CHOOSE x \in is : \A y \in is : x <= y
                 js == {j \in 1..Len(b) : BlockAt(a, b, i, j, k)}
                 j == CHOOSE x \in js : \A y \in js : x <= y
             IN  [i |-> i, j |-> j, k |-> k]

RECURSIVE MatchingSize(_, _)

\* the block m and the blocks found to its left and to its right
MatchingAround(a, b, m) ==
    IF m.k = 0 THEN 0
    ELSE m.k
         + MatchingSize(SubSeq(a, 1, m.i - 1), SubSeq(b, 1, m.j - 1))
         + MatchingSize(SubSeq(a, m.i + m.k, Len(a)), SubSeq(b, m.j + m.k, Len(b)))

\* sum of the sizes of SequenceMatcher.get_matching_blocks()
MatchingSize(a, b) ==
    IF a = <<>> \/ b = <<>> THEN 0
    ELSE MatchingAround(a, b, LongestMatch(a, b))

\* the ratio as a fraction num/den; SequenceMatcher.ratio() is 2*M/T and 1.0
\* when both strings are empty
CalculateSimilarity(str1, str2) ==
    IF str1 = <<>> \/ str2 = <<>> THEN [num |-> 0, den |-> 1]
    ELSE LET a == Normalize(str1)
             b == Normalize(str2)
         IN  IF Len(a) + Len(b) = 0 THEN [num |-> 1, den |-> 1]
             ELSE [num |-> 2 * MatchingSize(a, b), den |-> Len(a) + Len(b)]

\* ratio > tenths/10
RatioAbove(r, tenths) == r.num * 10 > tenths * r.den

(***************************************************************************)
(* DataIntegrator._periods_overlap                                         *)
(***************************************************************************)
\* as _periods_overlap, with a shared boundary day not counted
PeriodsOverlapStrict(period1, period2) ==
    IF period1.start_date = NoDate \/ period2.start_date = NoDate THEN FALSE
    ELSE LET end1 == IF period1.end_date # NoDate THEN period1.end_date
                     ELSE period1.start_date
             end2 == IF period2.end_date # NoDate THEN period2.end_date
                     ELSE period2.start_date
         IN  (period1.start_date < end2) /\ (period2.start_date < end1)

PeriodsOverlap(period1, period2) ==
    IF period1.start_date = NoDate \/ period2.start_date = NoDate THEN FALSE
    ELSE LET end1 == IF period1.end_date # NoDate THEN period1.end_date
                     ELSE period1.start_date
             end2 == IF period2.end_date # NoDate THEN period2.end_date
                     ELSE period2.start_date
         IN  (period1.start_date <= end2) /\ (period2.start_date <= end1)

\* Event.is_valid, with the AttributeError of a None period or location
\* counted as not valid
IsValid(event) ==
    /\ event.title # <<>>
    /\ event.period.obj /\ event.period.start_date # NoDate
    /\ event.location.obj /\ event.location.place # <<>>

(***************************************************************************)
(* DataIntegrator._are_events_similar                                      *)
(* The result is "True", "False", or "raise" when an attribute is read on  *)
(* a period or location that is None.  Python's `and` short-circuits, so   *)
(* event2.period is read only when event1.period.start_date is set.        *)
(***************************************************************************)
\* `event1.period.start_date and event2.period.start_date`
BothStartDates(event1, event2) ==
    IF ~event1.period.obj THEN "raise"
    ELSE IF event1.period.start_date = NoDate THEN "False"
    ELSE IF ~event2.period.obj THEN "raise"
    ELSE IF event2.period.start_date = NoDate THEN "False"
    ELSE "True"

\* lines 86-97, reached with both start dates set
DatesAndPlaceTest(event1, event2, both) ==
        IF both # "True" THEN both
        ELSE IF /\ event1.period.start_date = event2.period.start_date
                /\ event1.period.end_date = event2.period.end_date
             THEN "True"
        ELSE IF PeriodsOverlap(event1.period, event2.period)
             THEN IF ~event1.location.obj \/ ~event2.location.obj THEN "raise"
                  ELSE IF RatioAbove(CalculateSimilarity(event1.location.place,
                                                         event2.location.place), 7)
                       THEN "True" ELSE "False"
        ELSE "False"

\* lines 82-97: somewhat similar titles, decided by period and place
SomewhatSimilarTest(event1, event2) ==
    DatesAndPlaceTest(event1, event2, BothStartDates(event1, event2))

\* lines 102-105, reached with both start dates set
StartDatesCloseTest(event1, event2, both) ==
    IF both # "True" THEN both
    ELSE IF Abs(event1.period.start_date - event2.period.start_date) <= 3
         THEN "True" ELSE "False"

\* lines 99-105: same brand and start dates within 3 days
SameBrandTest(event1, event2) ==
    IF event1.brand # <<>> /\ event2.brand # <<>> /\ event1.brand = event2.brand
    THEN StartDatesCloseTest(event1, event2, BothStartDates(event1, event2))
    ELSE "False"

\* as lines 99-107 without the brand test
AfterPeriodTestWithoutBrand(event1, event2, decided) == decided

\* lines 99-107 run unless the period test returned True or raised
AfterPeriodTest(event1, event2, decided) ==
    IF decided # "False" THEN decided ELSE SameBrandTest(event1, event2)

\* lines 77-107 for a given title similarity
DecideSimilar(event1, event2, title_similarity) ==
    IF RatioAbove(title_similarity, 7) THEN "True"
    ELSE AfterPeriodTest(event1, event2,
                         IF RatioAbove(title_similarity, 5)
                         THEN SomewhatSimilarTest(event1, event2)
                         ELSE "False")

AreEventsSimilar(event1, event2) ==
    DecideSimilar(event1, event2, CalculateSimilarity(event1.title, event2.title))

(***************************************************************************)
(* DataIntegrator._group_similar_events                                    *)
(* Events are named by their position in the heap (object identity).       *)
(***************************************************************************)
\* one pass of the inner while loop: every remaining candidate is compared
\* once with the reference
RECURSIVE SimilarToReference(_, _, _)
\* the verdict of line 63 on each remaining candidate, in order
SimilarToReference(reference, ungrouped, heap) ==
    IF ungrouped = <<>> THEN <<>>
    ELSE <<AreEventsSimilar(heap[reference], heap[Head(ungrouped)])>>
         \o SimilarToReference(reference, Tail(ungrouped), heap)

SelectByVerdict(ungrouped, sims, verdict) ==
    FilterSeq(ungrouped, {ungrouped[i] : i \in {j \in 1..Len(sims) : sims[j] = verdict}})

\* as lines 59-66 with no candidate moved into the group
ScanResultMovesNone(reference, ungrouped, sims) ==
    [raised |-> \E i \in 1..Len(sims) : sims[i] = "raise",
     group  |-> <<reference>>,
     rest   |-> ungrouped]

\* as lines 59-66 with append(ungrouped[i]) in place of append(ungrouped.pop(i))
ScanResultWithoutPop(reference, ungrouped, sims) ==
    [raised |-> \E i \in 1..Len(sims) : sims[i] = "raise",
     group  |-> <<reference>> \o SelectByVerdict(ungrouped, sims, "True"),
     rest   |-> ungrouped]

\* lines 54-66: the group of the reference and the candidates left over
ScanResult(reference, ungrouped, sims) ==
    [raised |-> \E i \in 1..Len(sims) : sims[i] = "raise",
     group  |-> <<reference>> \o SelectByVerdict(ungrouped, sims, "True"),
     rest   |-> SelectByVerdict(ungrouped, sims, "False")]

ScanUngrouped(reference, ungrouped, heap) ==
    ScanResult(reference, ungrouped, SimilarToReference(reference, ungrouped, heap))

PrependGroup(group, later) ==
    [raised |-> later.raised, groups |-> <<group>> \o later.groups]

RECURSIVE GroupSimilarEvents(_, _)

\* lines 52-68 after one reference has collected its group
GroupRest(scan, heap) ==
    IF scan.raised THEN [raised |-> TRUE, groups |-> <<>>]
    ELSE PrependGroup(scan.group, GroupSimilarEvents(scan.rest, heap))

GroupSimilarEvents(ungrouped, heap) ==
    IF ungrouped = <<>> THEN [raised |-> FALSE, groups |-> <<>>]
    ELSE GroupRest(ScanUngrouped(Head(ungrouped), Tail(ungrouped), heap), heap)

(***************************************************************************)
(* DataIntegrator._merge_event_group                                       *)
(***************************************************************************)
\* as the selection of line 144, taking the first member of the group
BaseEventFirstMember(group, heap) == group[1]

\* max(group, key=lambda e: e.confidence): the first member of greatest
\* confidence
BaseEvent(group, heap) ==
    LET best == CHOOSE i \in 1..Len(group) :
                  /\ \A j \in 1..Len(group) :
                        heap[group[j]].confidence <= heap[group[i]].confidence
                  /\ \A j \in 1..(i - 1) :
                        heap[group[j]].confidence < heap[group[i]].confidence
    IN  group[best]

\* as the collection of lines 147-149, keeping the base member's URLs only
CollectSourceUrlsOfBase(group, heap) ==
    Range(heap[BaseEvent(group, heap)].source_urls)

\* the set built by source_urls.update(event.source_urls) over the group
CollectSourceUrls(group, heap) ==
    UNION {Range(heap[group[i]].source_urls) : i \in 1..Len(group)}

\* list(source_urls): the elements of a set of str come out in the order of
\* their hashes, which str hash randomisation draws anew in every process;
\* ord is that order, a permutation of all URLs
ListOfSet(urlset, ord) == FilterSeq(ord, urlset)

RECURSIVE JoinWithSpace(_)
\* " ".join(paragraphs)
JoinWithSpace(paragraphs) ==
    IF paragraphs = <<>> THEN <<>>
    ELSE IF Len(paragraphs) = 1 THEN Head(paragraphs)
    ELSE Head(paragraphs) \o <<" ">> \o JoinWithSpace(Tail(paragraphs))

RECURSIVE LongestDesc(_, _, _)
\* lines 152-157: the first strictly longest joined introduction
LongestDesc(group, heap, longest_desc) ==
    IF group = <<>> THEN longest_desc
    ELSE LET intro == heap[Head(group)].introduction
             desc == JoinWithSpace(intro)
         IN  LongestDesc(Tail(group), heap,
                         IF intro # <<>> /\ Len(desc) > Len(longest_desc)
                         THEN desc ELSE longest_desc)

RECURSIVE BestLocationAny(_, _, _)
\* as the loop of lines 165-169 without the test of best_location.address:
\* every member with a determinate address replaces the location
BestLocationAny(group, heap, best_location) ==
    IF group = <<>> THEN best_location
    ELSE BestLocationAny(Tail(group), heap,
                         IF heap[Head(group)].location.address # Undetermined
                         THEN heap[Head(group)].location ELSE best_location)

RECURSIVE BestLocation(_, _, _)
\* lines 165-169: the first member with a determinate address replaces a
\* location whose address is undetermined
BestLocation(group, heap, best_location) ==
    IF group = <<>> THEN best_location
    ELSE LET loc == heap[Head(group)].location
         IN  BestLocation(Tail(group), heap,
                          IF loc.address # Undetermined /\ best_location.address = Undetermined
                          THEN loc ELSE best_location)

\* line 168 reads event.location.address of every member
LocationLoopRaises(group, heap) ==
    \E i \in 1..Len(group) : ~heap[group[i]].location.obj

\* line 162: merged_details is base_event.details itself, so the assignment
\* writes the introduction of the base member
AdoptIntroduction(base, introduction, longest_desc) ==
    IF longest_desc # <<>> /\ introduction = <<>>
    THEN <<longest_desc>> ELSE introduction

\* the result: ret the returned event, heap the objects after the call,
\* raised whether the except branch of line 187 ran
\* max(e.confidence for e in group)
MaxConfidence(group, heap) ==
    CHOOSE c \in {heap[group[i]].confidence : i \in 1..Len(group)} :
        \A i \in 1..Len(group) : heap[group[i]].confidence <= c

\* lines 172-182: the Event built from the base member
MergedEvent(group, heap, base_event, ord) ==
    [title           |-> base_event.title,
     brand           |-> base_event.brand,
     period          |-> base_event.period,
     location        |-> BestLocation(group, heap, base_event.location),
     operating_hours |-> base_event.operating_hours,
     details_id      |-> base_event.details_id,
     introduction    |-> base_event.introduction,
     source_urls     |-> ListOfSet(CollectSourceUrls(group, heap), ord),
     confidence      |-> MaxConfidence(group, heap),
     collected_at    |-> base_event.collected_at]

\* lines 164-190 on the heap left by line 162
MergeAfterDetails(group, heap, base, ord) ==
    IF LocationLoopRaises(group, heap)
    THEN [ret |-> group[1], heap |-> heap, raised |-> TRUE]
    ELSE [ret |-> Len(heap) + 1,
          heap |-> Append(heap, MergedEvent(group, heap, heap[base], ord)),
          raised |-> FALSE]

\* lines 151-190 once the base member is chosen
MergeWithBase(group, heap, base, ord) ==
    MergeAfterDetails(
        group,
        [heap EXCEPT ![base].introduction =
            AdoptIntroduction(base, heap[base].introduction,
                              LongestDesc(group, heap, <<>>))],
        base, ord)

\* as _merge_event_group without the early return of lines 139-140
MergeEventGroupNoShortcut(group, heap, ord) ==
    MergeWithBase(group, heap, BaseEvent(group, heap), ord)

MergeEventGroup(group, heap, ord) ==
    IF Len(group) = 1 THEN [ret |-> group[1], heap |-> heap, raised |-> FALSE]
    ELSE MergeWithBase(group, heap, BaseEvent(group, heap), ord)

PrependMerged(first, later) ==
    [ret    |-> <<first.ret>> \o later.ret,
     heap   |-> later.heap,
     failed |-> <<first.raised>> \o later.failed]

RECURSIVE MergeGroups(_, _, _)

MergeLater(first, groups, ord) ==
    PrependMerged(first, MergeGroups(groups, first.heap, ord))

\* line 35: the groups are merged one after the other on the same objects
MergeGroups(groups, heap, ord) ==
    IF groups = <<>> THEN [ret |-> <<>>, heap |-> heap, failed |-> <<>>]
    ELSE MergeLater(MergeEventGroup(Head(groups), heap, ord), Tail(groups), ord)

(***************************************************************************)
(* DataIntegrator.integrate_events                                         *)
(***************************************************************************)
\* ret: the returned list; caught: the except branch of line 43 ran
\* lines 38-41: no merge result is None, so the filter keeps them all
UniqueEvents(groups, merged) ==
    [ret |-> merged.ret, heap |-> merged.heap, caught |-> FALSE,
     groups |-> groups, failed |-> merged.failed]

Identities(evs) == [i \in 1..Len(evs) |-> i]

\* as lines 34-45, with the except branch returning an empty list
IntegrateGroupedDropsAll(evs, grouping, ord) ==
    IF grouping.raised
    THEN [ret |-> <<>>, heap |-> evs, caught |-> TRUE, groups |-> <<>>,
          failed |-> <<>>]
    ELSE UniqueEvents(grouping.groups, MergeGroups(grouping.groups, evs, ord))

\* lines 34-45 for the outcome of the grouping
IntegrateGrouped(evs, grouping, ord) ==
    IF grouping.raised
    THEN [ret |-> Identities(evs), heap |-> evs, caught |-> TRUE, groups |-> <<>>,
          failed |-> <<>>]
    ELSE UniqueEvents(grouping.groups, MergeGroups(grouping.groups, evs, ord))

IntegrateEvents(evs, ord) ==
    IF evs = <<>>
    THEN [ret |-> <<>>, heap |-> evs, caught |-> FALSE, groups |-> <<>>,
          failed |-> <<>>]
    ELSE IntegrateGrouped(evs, GroupSimilarEvents(Identities(evs), evs), ord)

(***************************************************************************)
(* The Event objects given to integrate_events (models/event.py)           *)
(***************************************************************************)
NonePeriod == [obj |-> FALSE, start_date |-> NoDate, end_date |-> NoDate]

EventPeriod(start_date, end_date) ==
    [obj |-> TRUE, start_date |-> start_date, end_date |-> end_date]

NoneLocation == [obj |-> FALSE, place |-> <<>>, address |-> ""]

EventLocation(place, address) ==
    [obj |-> TRUE, place |-> place, address |-> address]

\* the dataclass Event; details.introduction is kept in the event together
\* with details_id, the identity of its EventDetails object
Event(title, brand, period, location, introduction, source_urls, confidence) ==
    [title |-> title, brand |-> brand, period |-> period, location |-> location,
     operating_hours |-> "", details_id |-> 0, introduction |-> introduction,
     source_urls |-> source_urls, confidence |-> confidence, collected_at |-> 0]

Urls == {"u1", "u2"}

UrlOrders == {<<"u1", "u2">>, <<"u2", "u1">>}

Seongsu == <<"s", "s">>

Nike == <<"n">>

TitleAbc == <<"a", "b", "c">>
TitleAbcSpaced == <<"A", "b", " ", "c", "!">>
TitleAbd == <<"a", "b", "d">>
TitleXyz == <<"x", "y", "z">>

\* events that differ in title and source: duplicates of one mention
TitleFamily ==
    {Event(t, <<>>, EventPeriod(1, 3), EventLocation(Seongsu, Undetermined),
           <<>>, u, 5) :
        t \in {<<>>, TitleAbc, TitleAbcSpaced, TitleXyz},
        u \in {<<"u1">>, <<"u2">>}}
    \cup {Event(TitleAbc, <<>>, EventPeriod(1, 3),
                EventLocation(Seongsu, Undetermined), <<>>, <<"u2", "u1">>, 5)}

\* events that differ in period and brand, some built without a period
PeriodFamily ==
    {Event(t, bp[1], bp[2], EventLocation(Seongsu, Undetermined), <<>>,
           <<"u1">>, 5) :
        t \in {TitleAbc, TitleAbd},
        bp \in {<<<<>>, NonePeriod>>, <<<<>>, EventPeriod(1, 3)>>,
                <<Nike, EventPeriod(1, 3)>>,
                <<Nike, EventPeriod(MaxDay - 1, NoDate)>>}}
    \cup {Event(TitleAbd, Nike, EventPeriod(NoDate, NoDate),
                EventLocation(Seongsu, Undetermined), <<>>, <<"u1">>, 5)}

\* events that differ in what a merge reads, some built without a location
MergeFamily ==
    {Event(TitleAbc, <<>>, EventPeriod(1, 3), l, i, <<"u2">>, 5) :
        l \in {NoneLocation, EventLocation(Seongsu, Undetermined),
               EventLocation(Seongsu, "addr1")},
        i \in {<<>>, <<<<"x">>, <<"y">>>>}}
    \cup {Event(TitleAbc, <<>>, EventPeriod(1, 3),
                EventLocation(Seongsu, Undetermined), <<>>, <<"u2">>, 9),
          Event(TitleAbc, <<>>, EventPeriod(1, 3),
                EventLocation(Seongsu, "addr1"), <<<<"x">>, <<"y">>>>, <<"u2">>, 9)}
    \cup {Event(TitleXyz, <<>>, EventPeriod(1, 3),
                EventLocation(Seongsu, Undetermined), <<<<"z">>>>, <<"u1">>, 5)}

\* what an Event of BaseFamily carries besides its confidence and location:
\* brand, period, operating hours and collection time differ with the tag
Tagged(event, tag) ==
    IF tag = 1
    THEN [event EXCEPT !.operating_hours = "10-18", !.collected_at = 1]
    ELSE [event EXCEPT !.brand = Nike, !.period = EventPeriod(2, 4),
                       !.operating_hours = "11-20", !.collected_at = 2]

\* events of one title that differ in everything a merge takes from its
\* base member, and in place and address
BaseFamily ==
    {Tagged(Event(TitleAbc, <<>>, EventPeriod(1, 3), l, <<>>, <<"u1">>, c), tag) :
        c \in {5, 9}, tag \in {1, 2},
        l \in {EventLocation(Seongsu, Undetermined),
               EventLocation(<<"d", "l">>, "addr1")}}
    \cup {Tagged(Event(TitleAbc, <<>>, EventPeriod(1, 3),
                       EventLocation(<<"s", "f">>, "addr2"), <<>>, <<"u1">>, 5), 1)}

EventFamilies == {TitleFamily, PeriodFamily, MergeFamily, BaseFamily}

\* the lists of at most MaxEvents events of one family, each event its own
\* object with its own EventDetails
EventLists(family) ==
    UNION {{[i \in 1..n |-> [f[i] EXCEPT !.details_id = i]] :
               f \in [1..n -> family]} : n \in 0..MaxEvents}

Runs == {1, 2}

IdleRun == [pc |-> "idle", ret |-> <<>>, heap |-> <<>>, caught |-> FALSE,
            groups |-> <<>>, failed |-> <<>>, ord |-> <<>>]

DoneRun(res, ord) ==
    [pc |-> "done", ret |-> res.ret, heap |-> res.heap, caught |-> res.caught,
     groups |-> res.groups, failed |-> res.failed, ord |-> ord]

InitIntegrate ==
    /\ \E family \in EventFamilies : events \in EventLists(family)
    /\ runs = [r \in Runs |-> IdleRun]
    /\ lx = [pc |-> "idle"]
    /\ gs = [pc |-> "idle"]
    /\ rt = [pc |-> "idle"]
    /\ ov = [pc |-> "idle"]
    /\ dx = [pc |-> "idle"]
    /\ pe = [pc |-> "idle"]
    /\ en = [pc |-> "idle"]
    /\ sm = [pc |-> "idle"]

\* main.py run r: integrate_events on the list, under the hash order ord of
\* that process
IntegrateRun(r) ==
    /\ runs[r].pc = "idle"
    /\ \E ord \in UrlOrders :
         runs' = [runs EXCEPT ![r] = DoneRun(IntegrateEvents(events, ord), ord)]
    /\ UNCHANGED <<events, ov, dx, pe, en, lx, gs, rt, sm>>

\* one run of main.py
NextIntegrate == IntegrateRun(1)

SpecIntegrate == InitIntegrate /\ [][NextIntegrate]_vars

\* two runs of main.py, two processes, on the same list of valid candidates
InitTwoRuns ==
    /\ events \in EventLists(TitleFamily)
    /\ runs = [r \in Runs |-> IdleRun]
    /\ lx = [pc |-> "idle"]
    /\ gs = [pc |-> "idle"]
    /\ rt = [pc |-> "idle"]
    /\ ov = [pc |-> "idle"]
    /\ dx = [pc |-> "idle"]
    /\ pe = [pc |-> "idle"]
    /\ en = [pc |-> "idle"]
    /\ sm = [pc |-> "idle"]

NextTwoRuns == \E r \in Runs : IntegrateRun(r)

SpecTwoRuns == InitTwoRuns /\ [][NextTwoRuns]_vars

(***************************************************************************)
(* One application of _periods_overlap to two EventPeriod objects          *)
(***************************************************************************)
Dates == 0..MaxDay

Periods == {EventPeriod(s, e) : s \in Dates, e \in Dates}

InitOverlap ==
    /\ \E p1 \in Periods, p2 \in Periods :
         ov = [pc |-> "ready", period1 |-> p1, period2 |-> p2, result |-> FALSE]
    /\ events = <<>>
    /\ runs = [r \in Runs |-> IdleRun]
    /\ lx = [pc |-> "idle"]
    /\ gs = [pc |-> "idle"]
    /\ rt = [pc |-> "idle"]
    /\ dx = [pc |-> "idle"]
    /\ pe = [pc |-> "idle"]
    /\ en = [pc |-> "idle"]
    /\ sm = [pc |-> "idle"]

CallPeriodsOverlap ==
    /\ ov.pc = "ready"
    /\ ov' = [ov EXCEPT !.pc = "done",
                        !.result = PeriodsOverlap(ov.period1, ov.period2)]
    /\ UNCHANGED <<events, runs, dx, pe, en, lx, gs, rt, sm>>

NextOverlap == CallPeriodsOverlap

SpecOverlap == InitOverlap /\ [][NextOverlap]_vars

(***************************************************************************)
(* Calendar dates (datetime.datetime at midnight) for DateExtractor        *)
(***************************************************************************)
IsLeap(y) == y % 4 = 0 /\ (y % 100 # 0 \/ y % 400 = 0)

DaysInMonth(y, m) ==
    IF m \in {1, 3, 5, 7, 8, 10, 12} THEN 31
    ELSE IF m \in {4, 6, 9, 11} THEN 30
    ELSE IF IsLeap(y) THEN 29 ELSE 28

\* datetime(y, m, d) raises ValueError unless this holds
ValidDate(y, m, d) ==
    /\ y \in 1..9999
    /\ m \in 1..12
    /\ d \in 1..DaysInMonth(y, m)

Date(y, m, d) == [y |-> y, m |-> m, d |-> d]

NoCalendarDate == Date(0, 0, 0)

\* a < b on datetimes at midnight
Before(a, b) ==
    \/ a.y < b.y
    \/ a.y = b.y /\ a.m < b.m
    \/ a.y = b.y /\ a.m = b.m /\ a.d < b.d

NextDay(a) ==
    IF a.d < DaysInMonth(a.y, a.m) THEN Date(a.y, a.m, a.d + 1)
    ELSE IF a.m < 12 THEN Date(a.y, a.m + 1, 1)
    ELSE Date(a.y + 1, 1, 1)

PrevDay(a) ==
    IF a.d > 1 THEN Date(a.y, a.m, a.d - 1)
    ELSE IF a.m > 1 THEN Date(a.y, a.m - 1, DaysInMonth(a.y, a.m - 1))
    ELSE Date(a.y - 1, 12, 31)

RECURSIVE PlusDays(_, _)
\* a + timedelta(days=n)
PlusDays(a, n) == IF n = 0 THEN a ELSE PlusDays(NextDay(a), n - 1)

RECURSIVE MinusDays(_, _)
\* a - timedelta(days=n)
MinusDays(a, n) == IF n = 0 THEN a ELSE MinusDays(PrevDay(a), n - 1)

\* datetime(...) < t for a datetime t = [date, late], late meaning that t is
\* after midnight of its date
BeforeInstant(a, t) == Before(a, t.date) \/ (a = t.date /\ t.late)

(***************************************************************************)
(* DateExtractor.extract_dates                                             *)
(* A text is a sequence of date phrases separated by words that match no   *)
(* pattern.  A phrase is [kind, nums]; Matches gives, for one pattern, the *)
(* groups of the matches re.finditer finds in one phrase, in order.        *)
(***************************************************************************)
\* lines 33-49: the patterns in priority order.  has_month is the value of
\* `'month' in pattern` of line 76: neither regular expression of type
\* 'month' contains the substring "month"
Patterns ==
    << [id |-> "range_kr",  date_type |-> "explicit",         has_month |-> FALSE],
       [id |-> "range_sl",  date_type |-> "explicit",         has_month |-> FALSE],
       [id |-> "month_long", date_type |-> "month",           has_month |-> FALSE],
       [id |-> "tilde_end", date_type |-> "month",            has_month |-> FALSE],
       [id |-> "ymd_kr",    date_type |-> "single_with_year", has_month |-> FALSE],
       [id |-> "ymd_iso",   date_type |-> "single_with_year", has_month |-> FALSE],
       [id |-> "md_kr",     date_type |-> "single",           has_month |-> FALSE],
       [id |-> "md_sl",     date_type |-> "single",           has_month |-> FALSE] >>

\* phrase kinds, with an example of each:
\*   range_kr   "3wol 5il-buteo 3wol 10il-kkaji"   nums m1 d1 m2 d2
\*   range_sl   "3/5~3/10"                          nums m1 d1 m2 d2
\*   month_long "2wol handalgan"                    nums m
\*   tilde_sl   "~5/20"                             nums m d
\*   tilde_kr   "~5wol 20il"                        nums m d
\*   ymd_kr     "2024nyeon 3wol 5il"                nums y m d
\*   ymd_iso    "2024-03-05"                        nums y m d
\*   md_kr      "3wol 5il"                          nums m d
\*   md_sl      "3/5"                               nums m d
Matches(pattern_id, phrase) ==
    LET n == phrase.nums
        k == phrase.kind
    IN  CASE pattern_id = "range_kr" ->
               IF k = "range_kr" THEN <<n>> ELSE <<>>
          [] pattern_id = "range_sl" ->
               IF k = "range_sl" THEN <<n>> ELSE <<>>
          [] pattern_id = "month_long" ->
               IF k = "month_long" THEN <<n>> ELSE <<>>
          [] pattern_id = "tilde_end" ->
               IF k \in {"tilde_sl", "tilde_kr"} THEN <<n>>
               ELSE IF k = "range_sl" THEN << <<n[3], n[4]>> >>
               ELSE <<>>
          [] pattern_id = "ymd_kr" ->
               IF k = "ymd_kr" THEN <<n>> ELSE <<>>
          [] pattern_id = "ymd_iso" ->
               IF k = "ymd_iso" THEN <<n>> ELSE <<>>
          [] pattern_id = "md_kr" ->
               IF k \in {"md_kr", "tilde_kr"} THEN <<n>>
               ELSE IF k = "range_kr" THEN << <<n[1], n[2]>>, <<n[3], n[4]>> >>
               ELSE IF k = "ymd_kr" THEN << <<n[2], n[3]>> >>
               ELSE <<>>
          [] pattern_id = "md_sl" ->
               IF k \in {"md_sl", "tilde_sl"} THEN <<n>>
               ELSE IF k = "range_sl" THEN << <<n[1], n[2]>>, <<n[3], n[4]>> >>
               ELSE <<>>

RECURSIVE FindIter(_, _)
\* re.finditer(pattern, text)
FindIter(pattern_id, text) ==
    IF text = <<>> THEN <<>>
    ELSE Matches(pattern_id, Head(text)) \o FindIter(pattern_id, Tail(text))

NoDates == [found |-> FALSE, start_date |-> NoCalendarDate,
            end_date |-> NoCalendarDate, type |-> "", confidence |-> 0]

Raised == [found |-> FALSE, start_date |-> NoCalendarDate,
           end_date |-> NoCalendarDate, type |-> "raise", confidence |-> 0]

\* the dict of lines 67, 103, 121 and 140; strftime("%Y-%m-%d") keeps the
\* calendar day and drops the time of day
DateInfo(start_date, end_date, type, confidence) ==
    [found |-> TRUE, start_date |-> start_date, end_date |-> end_date,
     type |-> type, confidence |-> confidence]

\* a variant that keeps the end of a range in the current year
HandleExplicitSameYear(year, g) ==
    IF ~ValidDate(year, g[1], g[2]) \/ ~ValidDate(year, g[3], g[4]) THEN Raised
    ELSE DateInfo(Date(year, g[1], g[2]), Date(year, g[3], g[4]), "explicit", 9)

\* lines 55-72
HandleExplicit(year, g) ==
    IF ~ValidDate(year, g[1], g[2]) \/ ~ValidDate(year, g[3], g[4]) THEN Raised
    ELSE IF Before(Date(year, g[3], g[4]), Date(year, g[1], g[2])) /\ g[1] > g[3]
    THEN IF ~ValidDate(year + 1, g[3], g[4]) THEN Raised
         ELSE DateInfo(Date(year, g[1], g[2]), Date(year + 1, g[3], g[4]),
                       "explicit", 9)
    ELSE DateInfo(Date(year, g[1], g[2]), Date(year, g[3], g[4]), "explicit", 9)

\* lines 78-89, the branch taken when 'month' is in the pattern
HandleMonthLong(year, g) ==
    IF ~ValidDate(year, g[1], 1) THEN Raised
    ELSE DateInfo(Date(year, g[1], 1), Date(year, g[1], DaysInMonth(year, g[1])),
                  "month", 7)

\* lines 92-101, the else branch; match.group(2) raises IndexError when the
\* pattern has one group only
HandleDanglingEnd(year, now, g) ==
    IF Len(g) < 2 THEN Raised
    ELSE IF ~ValidDate(year, g[1], g[2]) THEN Raised
    ELSE IF BeforeInstant(Date(year, g[1], g[2]), now)
    THEN IF ~ValidDate(year + 1, g[1], g[2]) THEN Raised
         ELSE DateInfo(now.date, Date(year + 1, g[1], g[2]), "month", 7)
    ELSE DateInfo(now.date, Date(year, g[1], g[2]), "month", 7)

\* lines 74-108
HandleMonth(pattern, year, now, g) ==
    IF pattern.has_month THEN HandleMonthLong(year, g)
    ELSE HandleDanglingEnd(year, now, g)

\* lines 110-126
HandleSingleWithYear(g) ==
    IF ~ValidDate(g[1], g[2], g[3]) THEN Raised
    ELSE DateInfo(Date(g[1], g[2], g[3]), PlusDays(Date(g[1], g[2], g[3]), 7),
                  "single_with_year", 8)

\* start_date < datetime.now() - timedelta(days=3)
MoreThanThreeDaysAgo(date, now) ==
    BeforeInstant(date, [date |-> MinusDays(now.date, 3), late |-> now.late])

\* lines 128-145
HandleSingle(year, now, g) ==
    IF ~ValidDate(year, g[1], g[2]) THEN Raised
    ELSE IF MoreThanThreeDaysAgo(Date(year, g[1], g[2]), now)
    THEN IF ~ValidDate(year + 1, g[1], g[2]) THEN Raised
         ELSE DateInfo(Date(year + 1, g[1], g[2]),
                       PlusDays(Date(year + 1, g[1], g[2]), 7), "single", 6)
    ELSE DateInfo(Date(year, g[1], g[2]), PlusDays(Date(year, g[1], g[2]), 7),
                  "single", 6)

\* the body of the try of lines 54-145 for one match
HandleMatch(pattern, year, now, g) ==
    CASE pattern.date_type = "explicit" -> HandleExplicit(year, g)
      [] pattern.date_type = "month" -> HandleMonth(pattern, year, now, g)
      [] pattern.date_type = "single_with_year" -> HandleSingleWithYear(g)
      [] pattern.date_type = "single" -> HandleSingle(year, now, g)

RECURSIVE FirstParsed(_, _, _, _)

\* lines 147-149: a match that raised is skipped
TryNext(res, pattern, year, now, matches) ==
    IF res.found THEN res ELSE FirstParsed(pattern, year, now, matches)

\* lines 53-149: the first match of the pattern that does not raise
FirstParsed(pattern, year, now, matches) ==
    IF matches = <<>> THEN NoDates
    ELSE TryNext(HandleMatch(pattern, year, now, Head(matches)),
                 pattern, year, now, Tail(matches))

RECURSIVE ExtractFrom(_, _, _, _)

\* line 51: a pattern without a parsed match gives way to the next one
NextPattern(res, patterns, year, now, text) ==
    IF res.found THEN res ELSE ExtractFrom(patterns, year, now, text)

\* lines 51-151 from the given pattern on
ExtractFrom(patterns, year, now, text) ==
    IF patterns = <<>> THEN NoDates
    ELSE NextPattern(FirstParsed(Head(patterns), year, now,
                                 FindIter(Head(patterns).id, text)),
                     Tail(patterns), year, now, text)

\* self.year is the year of datetime.now() at construction
ExtractDates(now, text) == ExtractFrom(Patterns, now.date.y, now, text)

(***************************************************************************)
(* One application of extract_dates to a text, at the instant now          *)
(***************************************************************************)
Phrase(kind, nums) == [kind |-> kind, nums |-> nums]

\* 2024 is a leap year, 2023 is not
Years == {2023, 2024}

Nows ==
    {[date |-> Date(y, md[1], md[2]), late |-> l] :
        y \in Years, md \in {<<1, 2>>, <<3, 8>>, <<3, 9>>, <<12, 30>>},
        l \in BOOLEAN}

Phrases ==
    {Phrase(k, n) : k \in {"range_kr", "range_sl"},
                    n \in {<<3, 5, 3, 10>>, <<3, 10, 3, 5>>, <<12, 29, 2, 5>>,
                           <<2, 30, 3, 5>>}}
    \cup {Phrase("month_long", <<m>>) : m \in {2, 3, 13}}
    \cup {Phrase(k, n) : k \in {"tilde_sl", "tilde_kr"},
                         n \in {<<3, 5>>, <<12, 29>>, <<2, 29>>}}
    \cup {Phrase(k, n) : k \in {"ymd_kr", "ymd_iso"},
                         n \in {<<2024, 3, 5>>, <<2023, 2, 29>>}}
    \cup {Phrase(k, n) : k \in {"md_kr", "md_sl"},
                         n \in {<<3, 5>>, <<12, 29>>, <<2, 29>>, <<2, 30>>}}

Texts == UNION {[1..n -> Phrases] : n \in 0..MaxMentions}

InitDates ==
    /\ \E now \in Nows, text \in Texts :
         dx = [pc |-> "ready", now |-> now, text |-> text, result |-> NoDates]
    /\ events = <<>>
    /\ runs = [r \in Runs |-> IdleRun]
    /\ lx = [pc |-> "idle"]
    /\ gs = [pc |-> "idle"]
    /\ rt = [pc |-> "idle"]
    /\ ov = [pc |-> "idle"]
    /\ pe = [pc |-> "idle"]
    /\ en = [pc |-> "idle"]
    /\ sm = [pc |-> "idle"]

CallExtractDates ==
    /\ dx.pc = "ready"
    /\ dx' = [dx EXCEPT !.pc = "done", !.result = ExtractDates(dx.now, dx.text)]
    /\ UNCHANGED <<events, runs, ov, pe, en, lx, gs, rt, sm>>

NextDates == CallExtractDates

SpecDates == InitDates /\ [][NextDates]_vars

(***************************************************************************)
(* EventProcessor (processors/event_processor.py)                          *)
(* Here a date is the string the extractor or the AI produced, None is the *)
(* string "None", and a dict is a record.                                  *)
(***************************************************************************)
\* Python truth value of a str or None
Truthy(v) == v \notin {"None", ""}

\* a or b
Or(a, b) == IF Truthy(a) THEN a ELSE b

\* the fields of the dataclass Event, the keywords Event(...) accepts
EventFields ==
    {"title", "brand", "period", "location", "operating_hours", "details",
     "source_urls", "confidence", "collected_at"}

NoEvent == [title |-> "", brand |-> "",
            period |-> [obj |-> FALSE, start_date |-> "None", end_date |-> "None"],
            location |-> [obj |-> FALSE, place |-> "None", address |-> "None"],
            source_urls |-> <<>>, confidence |-> 0, reasoning |-> ""]

\* Event(**kwargs): the generated __init__ raises TypeError on a keyword
\* that is no field, and on a missing title; other fields take their
\* defaults
NewEvent(kwargs) ==
    IF ~(DOMAIN kwargs \subseteq EventFields) \/ "title" \notin DOMAIN kwargs
    THEN [raised |-> TRUE, event |-> NoEvent]
    ELSE [raised |-> FALSE,
          event |->
            [title |-> kwargs.title,
             brand |-> IF "brand" \in DOMAIN kwargs THEN kwargs.brand ELSE "",
             period |-> IF "period" \in DOMAIN kwargs THEN kwargs.period
                        ELSE [obj |-> TRUE, start_date |-> "None",
                              end_date |-> "None"],
             location |-> IF "location" \in DOMAIN kwargs THEN kwargs.location
                          ELSE [obj |-> TRUE, place |-> Undetermined,
                                address |-> Undetermined],
             source_urls |-> IF "source_urls" \in DOMAIN kwargs
                             THEN kwargs.source_urls ELSE <<>>,
             confidence |-> IF "confidence" \in DOMAIN kwargs
                            THEN kwargs.confidence ELSE 0,
             reasoning |-> ""]]

\* the keywords of _is_likely_popup_store that the texts of the model use
PopupKeywords == {"popup", "open"}

\* raw.words: the words of the lowered title and description
IsLikelyPopupStore(raw) == raw.words \cap PopupKeywords # {}

\* lines 84-92: None when the extractor returned None
PreliminaryPeriod(date_info) ==
    IF date_info.found
    THEN [obj |-> TRUE, start_date |-> date_info.start_date,
          end_date |-> date_info.end_date]
    ELSE [obj |-> FALSE, start_date |-> "None", end_date |-> "None"]

PreliminaryLocation(location_info) ==
    IF location_info.found
    THEN [obj |-> TRUE, place |-> location_info.place,
          address |-> location_info.address]
    ELSE [obj |-> FALSE, place |-> "None", address |-> "None"]

\* lines 94-100: Event is called with the keywords title, description,
\* period, location and source_url
CreatePreliminaryEvent(title, description, date_info, location_info, source_url) ==
    NewEvent([title |-> title, description |-> description,
              period |-> PreliminaryPeriod(date_info),
              location |-> PreliminaryLocation(location_info),
              source_url |-> source_url])

\* lines 106-116 for an ai_info that is a dict; an attribute read or written
\* on a None period or location, and .get on a location that is no dict,
\* raise
EnhanceWithAi(event, ai_info) ==
    IF ~ai_info.found THEN [status |-> "none", event |-> event]
    ELSE IF ~event.period.obj
    THEN [status |-> "raise", event |-> [event EXCEPT !.brand = ai_info.brand]]
    ELSE IF ~ai_info.location.obj \/ ~event.location.obj
    THEN [status |-> "raise",
          event |->
            [event EXCEPT
               !.brand = ai_info.brand,
               !.period.start_date = Or(ai_info.start_date, event.period.start_date),
               !.period.end_date = Or(ai_info.end_date, event.period.end_date)]]
    ELSE [status |-> "event",
          event |->
            [event EXCEPT
               !.brand = ai_info.brand,
               !.period.start_date = Or(ai_info.start_date, event.period.start_date),
               !.period.end_date = Or(ai_info.end_date, event.period.end_date),
               !.location.place = Or(ai_info.location.place, event.location.place),
               !.location.address = Or(ai_info.location.address,
                                       event.location.address),
               !.confidence = IF ai_info.has_confidence THEN ai_info.confidence
                              ELSE event.confidence,
               !.reasoning = ai_info.reasoning]]

\* lines 120-129: an object is true, None and the empty string are not
IsValidEvent(event) ==
    /\ event.title # ""
    /\ event.period.obj
    /\ event.location.obj

Absent == [returned |-> FALSE, event |-> NoEvent]

\* lines 56-64
ValidateResult(enhanced, event) ==
    IF enhanced.status = "raise" THEN Absent
    ELSE IF IsValidEvent(enhanced.event)
    THEN [returned |-> TRUE, event |-> enhanced.event]
    ELSE Absent

\* lines 52-68; an exception anywhere is caught by line 66
EnhanceAndValidate(created, ai_info) ==
    IF created.raised THEN Absent
    ELSE ValidateResult(EnhanceWithAi(created.event, ai_info), created.event)

\* `extract(description) or extract(title)` of lines 40-41
FirstFound(a, b) == IF a.found THEN a ELSE b

ProcessEvent(raw, ai_info) ==
    IF ~IsLikelyPopupStore(raw) THEN Absent
    ELSE EnhanceAndValidate(
             CreatePreliminaryEvent(raw.title, raw.description,
                                    FirstFound(raw.description_dates, raw.title_dates),
                                    FirstFound(raw.description_location,
                                               raw.title_location),
                                    raw.link),
             ai_info)

(***************************************************************************)
(* Inputs of the processor                                                 *)
(***************************************************************************)
\* what extract_dates returns: None or a dict with both dates
DateInfos ==
    {[found |-> FALSE, start_date |-> "None", end_date |-> "None"],
     [found |-> TRUE, start_date |-> "2024-03-05", end_date |-> "2024-03-10"]}

\* what extract_location returns: None or a dict whose place is never empty
LocationInfos ==
    {[found |-> FALSE, place |-> "None", address |-> "None"],
     [found |-> TRUE, place |-> "Seongsu", address |-> Undetermined],
     [found |-> TRUE, place |-> Undetermined, address |-> "Seongsu-dong 1ga 12"]}

\* what analyze_event returns: None, or the parsed JSON object, which has
\* the keys title, start_date and location; a key that is missing reads as
\* None, and location may be null instead of an object
NoAiInfo ==
    [found |-> FALSE, brand |-> "None", start_date |-> "None", end_date |-> "None",
     location |-> [obj |-> FALSE, place |-> "None", address |-> "None"],
     has_confidence |-> FALSE, confidence |-> 0, reasoning |-> "None"]

AiInfos ==
    {NoAiInfo}
    \cup {[found |-> TRUE, brand |-> b, start_date |-> sd, end_date |-> ed,
           location |-> l, has_confidence |-> hc,
           confidence |-> IF hc THEN 8 ELSE 0, reasoning |-> "why"] :
            b \in {"None", "Nike"},
            sd \in {"None", "", "2024-04-01"},
            ed \in {"None", "2024-04-09"},
            l \in {[obj |-> FALSE, place |-> "None", address |-> "None"]}
                  \cup {[obj |-> TRUE, place |-> p, address |-> a] :
                          p \in {"", "Daelim"}, a \in {"None", "Seongsui-ro 78"}},
            hc \in BOOLEAN}

RawEvents ==
    {[title |-> t, description |-> "text", words |-> w, link |-> "http://x",
      description_dates |-> dd, title_dates |-> td,
      description_location |-> dl, title_location |-> tl] :
        t \in {"", "Nike popup"},
        w \in {{}, {"popup"}, {"sale", "open"}},
        dd \in DateInfos, td \in DateInfos,
        dl \in LocationInfos, tl \in {l \in LocationInfos : l.address = Undetermined
                                                           \/ ~l.found}}

InitProcess ==
    /\ \E raw \in RawEvents, ai \in AiInfos :
         pe = [pc |-> "ready", raw |-> raw, ai_info |-> ai, result |-> Absent]
    /\ events = <<>>
    /\ runs = [r \in Runs |-> IdleRun]
    /\ lx = [pc |-> "idle"]
    /\ gs = [pc |-> "idle"]
    /\ rt = [pc |-> "idle"]
    /\ ov = [pc |-> "idle"]
    /\ dx = [pc |-> "idle"]
    /\ en = [pc |-> "idle"]
    /\ sm = [pc |-> "idle"]

CallProcessEvent ==
    /\ pe.pc = "ready"
    /\ pe' = [pe EXCEPT !.pc = "done", !.result = ProcessEvent(pe.raw, pe.ai_info)]
    /\ UNCHANGED <<events, runs, ov, dx, en, lx, gs, rt, sm>>

NextProcess == CallProcessEvent

SpecProcess == InitProcess /\ [][NextProcess]_vars

\* the events _enhance_with_ai can be given: Event objects whose period and
\* location are as lines 84-92 build them
PreliminaryEvents ==
    {[title |-> "Nike popup", brand |-> "", period |-> PreliminaryPeriod(d),
      location |-> PreliminaryLocation(l), source_urls |-> <<>>, confidence |-> 0,
      reasoning |-> ""] : d \in DateInfos, l \in LocationInfos}

InitEnhance ==
    /\ \E event \in PreliminaryEvents, ai \in AiInfos :
         en = [pc |-> "ready", event |-> event, ai_info |-> ai,
               result |-> [status |-> "none", event |-> event]]
    /\ events = <<>>
    /\ runs = [r \in Runs |-> IdleRun]
    /\ lx = [pc |-> "idle"]
    /\ gs = [pc |-> "idle"]
    /\ rt = [pc |-> "idle"]
    /\ ov = [pc |-> "idle"]
    /\ dx = [pc |-> "idle"]
    /\ pe = [pc |-> "idle"]
    /\ sm = [pc |-> "idle"]

CallEnhanceWithAi ==
    /\ en.pc = "ready"
    /\ en' = [en EXCEPT !.pc = "done", !.result = EnhanceWithAi(en.event, en.ai_info)]
    /\ UNCHANGED <<events, runs, ov, dx, pe, lx, gs, rt, sm>>

NextEnhance == CallEnhanceWithAi

SpecEnhance == InitEnhance /\ [][NextEnhance]_vars

(***************************************************************************)
(* Properties of DataIntegrator                                            *)
(***************************************************************************)
\* the events a finished run returned, by value
Returned(r) == [i \in 1..Len(runs[r].ret) |-> runs[r].heap[runs[r].ret[i]]]

\* C1: given two valid candidates whose titles are identical after
\* normalisation, integrate_events returns exactly one candidate, and its
\* source_urls, as a set, is the union of the two inputs' source_urls
C1_DedupClosure ==
    \A r \in Runs :
        (/\ runs[r].pc = "done"
         /\ Len(events) = 2
         /\ IsValid(events[1]) /\ IsValid(events[2])
         /\ Normalize(events[1].title) = Normalize(events[2].title))
        => /\ Len(runs[r].ret) = 1
           /\ Range(Returned(r)[1].source_urls)
                = Range(events[1].source_urls) \cup Range(events[2].source_urls)

C1_Witness ==
    /\ runs[1].pc = "done"
    /\ Len(events) = 2
    /\ IsValid(events[1]) /\ IsValid(events[2])
    /\ events[1].title # events[2].title
    /\ Normalize(events[1].title) = Normalize(events[2].title)
    /\ events[1].source_urls = <<"u1">>
    /\ events[2].source_urls = <<"u2">>
    /\ Len(runs[1].ret) = 1
    /\ runs[1].ret[1] = 3
    /\ Range(Returned(1)[1].source_urls) = {"u1", "u2"}

\* C5: when an exception reaches the handler of integrate_events, which
\* only the grouping can cause, the call returns the original input list:
\* the same objects in the same order, none lost and none modified
C5_FailureReturnsInput ==
    \A r \in Runs :
        (runs[r].pc = "done" /\ runs[r].caught)
        => /\ runs[r].ret = Identities(events)
           /\ runs[r].heap = events

\* C5 as first stated: whenever the grouping or the merge of a group raised
\* during the call, the call returns the original input list
C5_AnyFailureReturnsInput ==
    \A r \in Runs :
        (/\ runs[r].pc = "done"
         /\ (runs[r].caught
             \/ \E g \in 1..Len(runs[r].failed) : runs[r].failed[g]))
        => runs[r].ret = Identities(events)

C5_Witness ==
    /\ runs[1].pc = "done"
    /\ runs[1].caught
    /\ Len(events) = 3
    /\ AreEventsSimilar(events[1], events[2]) = "True"
    /\ AreEventsSimilar(events[1], events[3]) = "raise"
    /\ runs[1].ret = <<1, 2, 3>>

\* C6: when the merge of a group raises, the result for that group is the
\* group's first member, unchanged, and every group still has its result
C6_MergeFailureLocal ==
    \A r \in Runs :
        runs[r].pc = "done"
        => /\ Len(runs[r].ret) = Len(runs[r].groups)
           /\ \A g \in 1..Len(runs[r].groups) :
                runs[r].failed[g]
                => /\ runs[r].ret[g] = runs[r].groups[g][1]
                   /\ runs[r].heap[runs[r].ret[g]] = events[runs[r].ret[g]]

\* C7: the merge of a group of one member returns that member itself, with
\* every field as it was
C7_SingletonIdentity ==
    \A r \in Runs :
        runs[r].pc = "done"
        => \A g \in 1..Len(runs[r].groups) :
                Len(runs[r].groups[g]) = 1
                => /\ runs[r].ret[g] = runs[r].groups[g][1]
                   /\ runs[r].heap[runs[r].ret[g]] = events[runs[r].ret[g]]

C7_Witness ==
    /\ runs[1].pc = "done"
    /\ Len(runs[1].groups) = 2
    /\ Len(runs[1].groups[1]) = 1
    /\ Len(runs[1].groups[2]) = 2
    /\ runs[1].ret[1] = 1
    /\ events[1].introduction # <<>>
    /\ Returned(1)[1] = events[1]

\* C8: two runs of integrate_events on the same list return the same list:
\* the same events in the same order with the same field values, the order
\* of source_urls included
C8_Deterministic ==
    (runs[1].pc = "done" /\ runs[2].pc = "done") => Returned(1) = Returned(2)

(***************************************************************************)
(* Properties of _periods_overlap                                          *)
(***************************************************************************)
EndOrStart(period) ==
    IF period.end_date = NoDate THEN period.start_date ELSE period.end_date

\* the two periods are well formed and only the last day of a is a day of b
ShareBoundaryDayOnly(a, b) ==
    /\ a.start_date # NoDate /\ b.start_date # NoDate
    /\ a.start_date < EndOrStart(a)
    /\ EndOrStart(a) = b.start_date
    /\ b.start_date < EndOrStart(b)

\* the two periods are well formed and b starts the day after a ends
OneDayApart(a, b) ==
    /\ a.start_date # NoDate /\ b.start_date # NoDate
    /\ a.start_date <= EndOrStart(a)
    /\ EndOrStart(a) + 1 = b.start_date
    /\ b.start_date <= EndOrStart(b)

\* C9: two periods overlap iff both have a start date and each starts no
\* later than the other's end, a missing end counting as the start; periods
\* sharing only a boundary day overlap, periods one day apart do not
C9_PeriodOverlap ==
    ov.pc = "done"
    => /\ ov.result <=> (/\ ov.period1.start_date # NoDate
                         /\ ov.period2.start_date # NoDate
                         /\ ov.period1.start_date <= EndOrStart(ov.period2)
                         /\ ov.period2.start_date <= EndOrStart(ov.period1))
       /\ (ShareBoundaryDayOnly(ov.period1, ov.period2)
           \/ ShareBoundaryDayOnly(ov.period2, ov.period1)) => ov.result
       /\ (OneDayApart(ov.period1, ov.period2)
           \/ OneDayApart(ov.period2, ov.period1)) => ~ov.result

C9_Witness ==
    /\ ov.pc = "done"
    /\ ov.period1 = EventPeriod(1, 3)
    /\ ov.period2 = EventPeriod(3, NoDate)
    /\ ov.result

(***************************************************************************)
(* Properties of extract_dates                                             *)
(***************************************************************************)
\* the text holds a phrase "N-wol handalgan" with N a month, and no phrase
\* of higher priority
MonthLongText(text) ==
    /\ \E i \in 1..Len(text) :
         text[i].kind = "month_long" /\ text[i].nums[1] \in 1..12
    /\ \A i \in 1..Len(text) : text[i].kind \notin {"range_kr", "range_sl"}

FirstMonthLong(text) ==
    text[CHOOSE i \in 1..Len(text) :
            /\ text[i].kind = "month_long" /\ text[i].nums[1] \in 1..12
            /\ \A j \in 1..(i - 1) :
                 ~(text[j].kind = "month_long" /\ text[j].nums[1] \in 1..12)].nums[1]

\* C10: for a text matching "N-wol handalgan", extract_dates returns day 1
\* of month N of the current year as start and the last day of that month
\* as end (29 for February of a leap year, else 28), type month,
\* confidence 0.7
C10_MonthLong ==
    (dx.pc = "done" /\ MonthLongText(dx.text))
    => dx.result = DateInfo(Date(dx.now.date.y, FirstMonthLong(dx.text), 1),
                            Date(dx.now.date.y, FirstMonthLong(dx.text),
                                 DaysInMonth(dx.now.date.y, FirstMonthLong(dx.text))),
                            "month", 7)

(***************************************************************************)
(* Properties of EventProcessor                                            *)
(***************************************************************************)
DateInfoOf(raw) == FirstFound(raw.description_dates, raw.title_dates)

LocationInfoOf(raw) == FirstFound(raw.description_location, raw.title_location)

\* C2: for a record that passes the relevance filter and whose text yields
\* a date range and a place, when the AI returns nothing, process_event
\* returns the preliminary candidate built from the extractor output
C2_PreliminaryReturned ==
    (/\ pe.pc = "done"
     /\ IsLikelyPopupStore(pe.raw)
     /\ pe.raw.title # ""
     /\ DateInfoOf(pe.raw).found
     /\ LocationInfoOf(pe.raw).found
     /\ ~pe.ai_info.found)
    => /\ pe.result.returned
       /\ pe.result.event.title = pe.raw.title
       /\ pe.result.event.period = PreliminaryPeriod(DateInfoOf(pe.raw))
       /\ pe.result.event.location = PreliminaryLocation(LocationInfoOf(pe.raw))

\* the value a field must have after enrichment: the AI's when it is not
\* empty, else the preliminary one, None when there is none
Enriched(ai_value, present, preliminary_value) ==
    IF Truthy(ai_value) THEN ai_value
    ELSE IF present THEN preliminary_value ELSE "None"

AiPlace(ai_info) == IF ai_info.location.obj THEN ai_info.location.place ELSE "None"

AiAddress(ai_info) == IF ai_info.location.obj THEN ai_info.location.address ELSE "None"

\* C4: when the AI returns a result (with a location object),
\* _enhance_with_ai returns the event with brand overwritten and with start
\* date, end date, place and address each the AI's value when that is not
\* empty and else the preliminary value, also when the preliminary event
\* has no period or no location
C4_AiPrecedence ==
    (en.pc = "done" /\ en.ai_info.found /\ en.ai_info.location.obj)
    => /\ en.result.status = "event"
       /\ en.result.event.brand = en.ai_info.brand
       /\ en.result.event.period.start_date
            = Enriched(en.ai_info.start_date, en.event.period.obj,
                       en.event.period.start_date)
       /\ en.result.event.period.end_date
            = Enriched(en.ai_info.end_date, en.event.period.obj,
                       en.event.period.end_date)
       /\ en.result.event.location.place
            = Enriched(AiPlace(en.ai_info), en.event.location.obj,
                       en.event.location.place)
       /\ en.result.event.location.address
            = Enriched(AiAddress(en.ai_info), en.event.location.obj,
                       en.event.location.address)

(***************************************************************************)
(* LocationExtractor: the gazetteer of __init__ and extract_location. A    *)
(* Korean word is written as the sequence of its syllables, romanised, so  *)
(* that `name in text` is the search for a contiguous subsequence.         *)
(***************************************************************************)
MaxPlaces == 2      \* most phrases in a text given to extract_location

Musinsa == <<"mu", "sin", "sa">>
Naiki == <<"na", "i", "ki">>
Adidas == <<"a", "di", "da", "seu">>
UnderArmour == <<"eon", "deo", "a", "meo">>
Acne == <<"a", "keu", "ne">>
SeongsuArea == <<"seong", "su">>
SeongsuDong == <<"seong", "su", "dong">>
SeongsuIro == <<"seong", "su", "i", "ro">>
SeongsuYeok == <<"seong", "su", "yeok">>
SeoulSup == <<"seo", "ul", "sup">>
Ttukseom == <<"ttuk", "seom">>
Seongdonggu == <<"seong", "dong", "gu">>
DaelimChanggo == <<"dae", "rim", "chang", "go">>
SeongsuYeonbang == <<"seong", "su", "yeon", "bang">>

\* lines 14-26, in the iteration order of the dict; lines 16-17 lack a
\* comma, so the fifth building is the two literals run together
Venues ==
    << <<"eon", "deo", "seu", "taen", "deu", "e", "bi", "nyu">>,
       DaelimChanggo,
       <<"e", "seu", "paek", "to", "ri">>,
       SeongsuYeonbang,
       SeongsuDong \o <<" ", "a", "teul", "ri", "e">> \o SeongsuYeok,
       SeoulSup \o <<"yeok">>,
       Ttukseom \o <<"yeok">>,
       <<"geon", "dae", "ip", "gu", "yeok">>,
       <<"a", "keu", "aen", "buk">>,
       SeongsuYeonbang,
       <<"yeon", "mu", "jang", "gil">>,
       SeongsuIro,
       <<"seong", "su", "il", "ro">>,
       SeoulSup \o <<"2", "gil">>,
       SeoulSup \o <<"4", "gil">>,
       SeongsuDong,
       SeoulSup,
       SeongsuArea,
       Ttukseom,
       Seongdonggu >>

\* lines 29-35, in the iteration order of the dict
BrandStores ==
    << [brand |-> Musinsa,
        stores |-> << Musinsa \o <<" ", "te", "ra", "seu">>,
                      Musinsa \o <<" ", "seu", "tyu", "di", "o">>,
                      Musinsa \o <<" ", "seu", "to", "eo">> >>],
       [brand |-> Naiki,
        stores |-> << Naiki \o <<" ">> \o SeongsuArea,
                      Naiki \o <<" ", "seo", "ul">> >>],
       [brand |-> Adidas, stores |-> << Adidas \o <<" ">> \o SeongsuArea >>],
       [brand |-> UnderArmour,
        stores |-> << UnderArmour \o <<" ">> \o SeongsuArea >>],
       [brand |-> Acne,
        stores |-> << Acne \o <<" ", "seu", "tyu", "di", "o", " ">>
                        \o SeongsuArea >>] >>

\* `name in text`
Occurs(name, text) ==
    \E i \in 1..(Len(text) - Len(name) + 1) :
        SubSeq(text, i, i + Len(name) - 1) = name

\* the first element of a list that satisfies a test, as a one-element or
\* empty list: a for loop that breaks at the first hit
RECURSIVE FirstIn(_, _)
FirstIn(names, text) ==
    IF names = <<>> THEN <<>>
    ELSE IF Occurs(Head(names), text) THEN <<Head(names)>>
    ELSE FirstIn(Tail(names), text)

\* lines 54-60
InitialResult ==
    [place |-> <<Undetermined>>, address |-> <<Undetermined>>, transit |-> <<>>,
     confidence |-> 0]

\* lines 62-72
CheckVenues(result, text) ==
    IF FirstIn(Venues, text) = <<>> THEN result
    ELSE [result EXCEPT !.place = FirstIn(Venues, text)[1], !.confidence = 7]

RECURSIVE FirstBrand(_, _)
FirstBrand(brands, text) ==
    IF brands = <<>> THEN <<>>
    ELSE IF Occurs(Head(brands).brand, text) THEN <<Head(brands)>>
    ELSE FirstBrand(Tail(brands), text)

\* a variant that never looks for the brand's stores
PlaceOfBrandIgnoringStores(result, entry, text) ==
    [result EXCEPT !.place = entry.brand \o <<" ">> \o SeongsuArea,
                   !.confidence = 6]

\* lines 78-90, for the brand found in the text
PlaceOfBrand(result, entry, text) ==
    IF FirstIn(entry.stores, text) # <<>>
    THEN [result EXCEPT !.place = FirstIn(entry.stores, text)[1],
                        !.confidence = 8]
    ELSE [result EXCEPT !.place = entry.brand \o <<" ">> \o SeongsuArea,
                        !.confidence = 6]

\* lines 74-90
CheckBrandStores(result, text) ==
    IF FirstBrand(BrandStores, text) = <<>> THEN result
    ELSE PlaceOfBrand(result, FirstBrand(BrandStores, text)[1], text)

(***************************************************************************)
(* The regular expressions of lines 38-44 and 101-105, matched as          *)
(* re.search matches them: leftmost start, every quantifier greedy, giving *)
(* back one character at a time. One syllable, digit or sign is one        *)
(* character.                                                              *)
(***************************************************************************)
Digits == {"0", "1", "2", "3", "4", "5", "6", "7", "8", "9"}

\* a character of a text is a Hangul syllable, a digit, a space, a dash or
\* the Latin letter h; [ga-hih\d\-] excludes the last and the space, \w the
\* space and the dash
InClass(c, class) ==
    CASE class = "space" -> c = " "
      [] class = "digit" -> c \in Digits
      [] class = "hangul_digit_dash" -> c \notin {" ", "h"}
      [] class = "word" -> c \notin {" ", "-"}

Lit(v) == [k |-> "lit", v |-> v, class |-> "", min |-> 0]

One(class) == [k |-> "one", v |-> <<>>, class |-> class, min |-> 1]

Many(class, min) == [k |-> "many", v |-> <<>>, class |-> class, min |-> min]

RECURSIVE RunLength(_, _, _)
RunLength(text, pos, class) ==
    IF pos <= Len(text) /\ InClass(text[pos], class)
    THEN 1 + RunLength(text, pos + 1, class)
    ELSE 0

\* the position after the match of items at pos, 0 when there is none
RECURSIVE MatchEnd(_, _, _)
RECURSIVE TryCounts(_, _, _, _, _)
OrFewer(end, rest, text, pos, n, min) ==
    IF end # 0 THEN end ELSE TryCounts(rest, text, pos, n - 1, min)

TryCounts(rest, text, pos, n, min) ==
    IF n < min THEN 0
    ELSE OrFewer(MatchEnd(rest, text, pos + n), rest, text, pos, n, min)

MatchEnd(items, text, pos) ==
    IF items = <<>> THEN pos
    ELSE CASE Head(items).k = "lit" ->
                IF /\ pos + Len(Head(items).v) - 1 <= Len(text)
                   /\ SubSeq(text, pos, pos + Len(Head(items).v) - 1)
                        = Head(items).v
                THEN MatchEnd(Tail(items), text, pos + Len(Head(items).v))
                ELSE 0
           [] Head(items).k = "one" ->
                IF pos <= Len(text) /\ InClass(text[pos], Head(items).class)
                THEN MatchEnd(Tail(items), text, pos + 1)
                ELSE 0
           [] Head(items).k = "many" ->
                TryCounts(Tail(items), text, pos,
                          RunLength(text, pos, Head(items).class),
                          Head(items).min)

\* re.search(pattern, text): group(0) as a one-element list, or no match
RECURSIVE SearchFrom(_, _, _)
SearchFrom(items, text, pos) ==
    IF pos > Len(text) THEN <<>>
    ELSE IF MatchEnd(items, text, pos) # 0
    THEN <<SubSeq(text, pos, MatchEnd(items, text, pos) - 1)>>
    ELSE SearchFrom(items, text, pos + 1)

Search(items, text) == SearchFrom(items, text, 1)

Seoul == <<"seo", "ul">>

NumberAndMore == <<Many("digit", 1), Many("hangul_digit_dash", 1)>>

RoadAndNumber ==
    <<Many("word", 1), Lit(<<"ro">>), Many("space", 0), Many("digit", 1)>>

\* lines 38-44
AddressPatterns ==
    << <<Lit(Seoul), Many("space", 0), Lit(Seongdonggu), Many("space", 0),
         Lit(SeongsuDong), One("digit"), Lit(<<"ga">>), Many("space", 0)>>
         \o NumberAndMore,
       <<Lit(SeongsuDong), One("digit"), Lit(<<"ga">>), Many("space", 0)>>
         \o NumberAndMore,
       <<Lit(Seongdonggu), Many("space", 0), Lit(SeongsuDong),
         Many("space", 0)>> \o NumberAndMore,
       <<Lit(Seoul), Many("space", 0), Lit(Seongdonggu), Many("space", 0)>>
         \o RoadAndNumber,
       <<Lit(Seoul \o <<"si">>), Many("space", 0), Lit(Seongdonggu),
         Many("space", 0)>> \o RoadAndNumber >>

ExitNumber ==
    <<Many("space", 0), Many("digit", 1), Lit(<<"beon">>), Many("space", 0),
      Lit(<<"chul", "gu">>)>>

\* lines 101-105
TransitPatterns ==
    << <<Lit(SeongsuYeok)>> \o ExitNumber,
       <<Lit(SeoulSup \o <<"yeok">>)>> \o ExitNumber,
       <<Lit(Ttukseom \o <<"yeok">>)>> \o ExitNumber >>

\* the match of the first pattern of a list that matches, or no match
RECURSIVE FirstSearch(_, _)
FirstSearch(patterns, text) ==
    IF patterns = <<>> THEN <<>>
    ELSE IF Search(Head(patterns), text) # <<>> THEN Search(Head(patterns), text)
    ELSE FirstSearch(Tail(patterns), text)

\* lines 92-98
CheckAddress(result, text) ==
    IF FirstSearch(AddressPatterns, text) = <<>> THEN result
    ELSE [result EXCEPT !.address = FirstSearch(AddressPatterns, text)[1],
                        !.confidence = IF @ > 9 THEN @ ELSE 9]

\* lines 100-111
CheckTransit(result, text) ==
    IF FirstSearch(TransitPatterns, text) = <<>> THEN result
    ELSE [result EXCEPT !.transit = FirstSearch(TransitPatterns, text)[1]]

NoLocation == [found |-> FALSE, place |-> <<>>, address |-> <<>>,
               transit |-> <<>>, confidence |-> 0]

\* lines 113-117
ReturnLocation(result) ==
    IF /\ result.confidence < 1
       /\ result.place = <<Undetermined>>
       /\ result.address = <<Undetermined>>
    THEN NoLocation
    ELSE [found |-> TRUE, place |-> result.place, address |-> result.address,
          transit |-> result.transit, confidence |-> result.confidence]

ExtractLocation(text) ==
    ReturnLocation(
        CheckTransit(
            CheckAddress(
                CheckBrandStores(CheckVenues(InitialResult, text), text),
                text),
            text))

(***************************************************************************)
(* extract_location applied to texts of at most MaxPlaces phrases, one     *)
(* step of the function per action                                         *)
(***************************************************************************)
LocationPhrases ==
    { <<"h">>,
      Musinsa,
      Musinsa \o <<" ", "te", "ra", "seu">>,
      Naiki \o <<" ">> \o SeongsuArea,
      Adidas,
      DaelimChanggo,
      SeongsuDong,
      SeongsuDong \o <<"1", "ga", " ", "1", "2", "-", "3">>,
      Seoul,
      Seongdonggu \o <<" ">> \o SeongsuIro \o <<" ", "1", "2">>,
      SeongsuYeok \o <<" ", "3", "beon", " ", "chul", "gu">> }

RECURSIVE JoinPhrases(_)
JoinPhrases(phrases) ==
    IF phrases = <<>> THEN <<>>
    ELSE IF Len(phrases) = 1 THEN phrases[1]
    ELSE phrases[1] \o <<" ">> \o JoinPhrases(Tail(phrases))

LocationTexts ==
    UNION {{JoinPhrases(f) : f \in [1..n -> LocationPhrases]} : n \in 0..MaxPlaces}

InitLocation ==
    /\ \E text \in LocationTexts :
         lx = [pc |-> "ready", text |-> text, result |-> InitialResult,
               returned |-> NoLocation]
    /\ events = <<>>
    /\ runs = [r \in Runs |-> IdleRun]
    /\ ov = [pc |-> "idle"]
    /\ dx = [pc |-> "idle"]
    /\ pe = [pc |-> "idle"]
    /\ en = [pc |-> "idle"]
    /\ gs = [pc |-> "idle"]
    /\ rt = [pc |-> "idle"]
    /\ sm = [pc |-> "idle"]

VenueStep ==
    /\ lx.pc = "ready"
    /\ lx' = [lx EXCEPT !.pc = "venues", !.result = CheckVenues(@, lx.text)]
    /\ UNCHANGED <<events, runs, ov, dx, pe, en, gs, rt, sm>>

BrandStep ==
    /\ lx.pc = "venues"
    /\ lx' = [lx EXCEPT !.pc = "brands", !.result = CheckBrandStores(@, lx.text)]
    /\ UNCHANGED <<events, runs, ov, dx, pe, en, gs, rt, sm>>

AddressStep ==
    /\ lx.pc = "brands"
    /\ lx' = [lx EXCEPT !.pc = "address", !.result = CheckAddress(@, lx.text)]
    /\ UNCHANGED <<events, runs, ov, dx, pe, en, gs, rt, sm>>

ReturnStep ==
    /\ lx.pc = "address"
    /\ lx' = [lx EXCEPT !.pc = "done",
                        !.result = CheckTransit(@, lx.text),
                        !.returned = ReturnLocation(CheckTransit(lx.result, lx.text))]
    /\ UNCHANGED <<events, runs, ov, dx, pe, en, gs, rt, sm>>

NextLocation == VenueStep \/ BrandStep \/ AddressStep \/ ReturnStep

SpecLocation == InitLocation /\ [][NextLocation]_vars

(***************************************************************************)
(* Properties of LocationExtractor                                         *)
(***************************************************************************)
VenueMatched(text) == \E i \in 1..Len(Venues) : Occurs(Venues[i], text)

\* brand i is the first brand of the gazetteer that occurs in the text
IsFirstBrand(i, text) ==
    /\ Occurs(BrandStores[i].brand, text)
    /\ \A j \in 1..(i - 1) : ~Occurs(BrandStores[j].brand, text)

StoresIn(i, text) ==
    {BrandStores[i].stores[k] : k \in 1..Len(BrandStores[i].stores)}
        \cap {store \in Range(BrandStores[i].stores) : Occurs(store, text)}

AddressMatched(text) ==
    \E i \in 1..Len(AddressPatterns) : Search(AddressPatterns[i], text) # <<>>

\* the values of the signals that matched: 0.7 for a venue, 0.8 or 0.6 for
\* a brand with or without one of its stores, 0.9 for an address
SignalValues(text) ==
    (IF VenueMatched(text) THEN {7} ELSE {})
    \cup UNION {IF ~IsFirstBrand(i, text) THEN {}
                ELSE IF StoresIn(i, text) # {} THEN {8} ELSE {6} :
                  i \in 1..Len(BrandStores)}
    \cup (IF AddressMatched(text) THEN {9} ELSE {})

Maximum(values) == CHOOSE v \in values : \A w \in values : w <= v

\* C11: the confidence extract_location returns is the maximum over the
\* signals that matched, venue, brand store and address each only raising it
C11_ConfidenceIsMaximum ==
    (lx.pc = "done" /\ SignalValues(lx.text) # {})
    => /\ lx.returned.found
       /\ lx.returned.confidence = Maximum(SignalValues(lx.text))

\* C16: for the first brand of the gazetteer that occurs in the text, the
\* brand step leaves place "{brand} Seongsu" with confidence 0.6 when no
\* store of that brand occurs, and one of its stores that occur with
\* confidence 0.8 when one does; the place is the one returned, and so is
\* the confidence unless the address step raises it
C16_BrandStoreMatch ==
    \A i \in 1..Len(BrandStores) :
        (lx.pc \in {"brands", "address", "done"} /\ IsFirstBrand(i, lx.text))
        => /\ IF StoresIn(i, lx.text) = {}
              THEN lx.result.place = BrandStores[i].brand \o <<" ">> \o SeongsuArea
              ELSE lx.result.place \in StoresIn(i, lx.text)
           /\ (lx.pc = "brands" \/ ~AddressMatched(lx.text))
              => lx.result.confidence
                   = IF StoresIn(i, lx.text) = {} THEN 6 ELSE 8
           /\ lx.pc = "done"
              => /\ lx.returned.found
                 /\ lx.returned.place = lx.result.place
                 /\ lx.returned.confidence = lx.result.confidence

C16_Witness ==
    /\ lx.pc = "done"
    /\ lx.text = Adidas \o <<" ">> \o Musinsa \o <<" ", "te", "ra", "seu">>
    /\ lx.returned.found
    /\ lx.returned.place = Musinsa \o <<" ", "te", "ra", "seu">>
    /\ lx.returned.confidence = 8

(***************************************************************************)
(* Properties of extract_dates: priority, skipping, single dates, ranges   *)
(***************************************************************************)
\* what a match stands for when its numbers are read as the phrase says: a
\* month-long phrase as the whole month, every other match as the code
\* reads it
IntendedMatch(pattern, year, now, g) ==
    IF pattern.id = "month_long" THEN HandleMonthLong(year, g)
    ELSE HandleMatch(pattern, year, now, g)

\* the text holds a match of a pattern of this class whose numbers form
\* valid calendar dates
ClassParseable(date_type, now, text) ==
    \E i \in 1..Len(Patterns) :
        /\ Patterns[i].date_type = date_type
        /\ \E k \in 1..Len(FindIter(Patterns[i].id, text)) :
             IntendedMatch(Patterns[i], now.date.y, now,
                           FindIter(Patterns[i].id, text)[k]).found

DateTypes == <<"explicit", "month", "single_with_year", "single">>

\* the classes with a parseable match, as positions in the priority order
ParseableClasses(now, text) ==
    {c \in 1..Len(DateTypes) : ClassParseable(DateTypes[c], now, text)}

HighestPriority(classes) == CHOOSE c \in classes : \A d \in classes : c <= d

\* C12: when the text holds parseable matches, extract_dates returns a
\* result of the highest-priority class that has one, wherever in the text
\* the matches are
C12_Priority ==
    (dx.pc = "done" /\ ParseableClasses(dx.now, dx.text) # {})
    => /\ dx.result.found
       /\ dx.result.type
            = DateTypes[HighestPriority(ParseableClasses(dx.now, dx.text))]

\* C15: a match whose numbers form no valid date is skipped: extract_dates
\* does not raise, and it returns absent only when no match of any pattern
\* can be parsed
C15_InvalidSkipped ==
    dx.pc = "done"
    => /\ dx.result.type # "raise"
       /\ ~dx.result.found => ParseableClasses(dx.now, dx.text) = {}

\* the text is one bare single date, valid in the current year and in the
\* next one
BareSingleDate(now, text) ==
    /\ Len(text) = 1
    /\ text[1].kind \in {"md_kr", "md_sl"}
    /\ ValidDate(now.date.y, text[1].nums[1], text[1].nums[2])
    /\ ValidDate(now.date.y + 1, text[1].nums[1], text[1].nums[2])

\* the year the claim gives a bare date: the next one exactly when the date
\* is more than 3 calendar days before today
YearOfSingle(now, m, d) ==
    IF Before(Date(now.date.y, m, d), MinusDays(now.date, 3))
    THEN now.date.y + 1
    ELSE now.date.y

\* C13: a single date without year is placed in the current year, and in
\* the next one exactly when it is more than 3 calendar days before today,
\* whatever the time of day; the end is 7 days later, the confidence 0.6
C13_SingleDateRollover ==
    (dx.pc = "done" /\ BareSingleDate(dx.now, dx.text))
    => dx.result
         = DateInfo(Date(YearOfSingle(dx.now, dx.text[1].nums[1], dx.text[1].nums[2]),
                         dx.text[1].nums[1], dx.text[1].nums[2]),
                    PlusDays(Date(YearOfSingle(dx.now, dx.text[1].nums[1],
                                               dx.text[1].nums[2]),
                                  dx.text[1].nums[1], dx.text[1].nums[2]), 7),
                    "single", 6)

\* phrase i is the only explicit range of the text and its numbers are
\* valid dates of the years they fall in
OnlyRange(now, text, i) ==
    /\ text[i].kind \in {"range_kr", "range_sl"}
    /\ \A j \in 1..Len(text) :
         j # i => text[j].kind \notin {"range_kr", "range_sl"}
    /\ ValidDate(now.date.y, text[i].nums[1], text[i].nums[2])
    /\ ValidDate(now.date.y, text[i].nums[3], text[i].nums[4])
    /\ ValidDate(now.date.y + 1, text[i].nums[3], text[i].nums[4])

\* C14: an explicit range M1/D1 to M2/D2 gives start M1-D1 of the current
\* year and end M2-D2 of the current year, of the next year when M2 < M1,
\* with type explicit and confidence 0.9
C14_ExplicitRange ==
    \A i \in 1..Len(dx.text) :
        (dx.pc = "done" /\ OnlyRange(dx.now, dx.text, i))
        => dx.result
             = DateInfo(Date(dx.now.date.y, dx.text[i].nums[1], dx.text[i].nums[2]),
                        Date(IF dx.text[i].nums[3] < dx.text[i].nums[1]
                             THEN dx.now.date.y + 1 ELSE dx.now.date.y,
                             dx.text[i].nums[3], dx.text[i].nums[4]),
                        "explicit", 9)

C14_Witness ==
    /\ dx.pc = "done"
    /\ Len(dx.text) = 2
    /\ dx.text[1].kind = "md_sl"
    /\ dx.text[2] = Phrase("range_sl", <<12, 29, 2, 5>>)
    /\ dx.now.date.y = 2024
    /\ dx.result = DateInfo(Date(2024, 12, 29), Date(2025, 2, 5), "explicit", 9)

(***************************************************************************)
(* GeminiService. The response text is a sequence of tokens: prose, an     *)
(* opening brace, a closing brace, or a member "key": value of a JSON      *)
(* object; a member whose value is an object is followed by the tokens of  *)
(* that object. A JSON value is [t, s, n, o]: its type, its string, its    *)
(* number in tenths and, for an object, its members.                       *)
(***************************************************************************)
Prose == [tok |-> "prose", key |-> "", val |-> <<>>]

Open == [tok |-> "open", key |-> "", val |-> <<>>]

Close == [tok |-> "close", key |-> "", val |-> <<>>]

JsonString(s) == [t |-> "str", s |-> s, n |-> 0, o |-> <<>>]

\* a string float() accepts, such as "0.8"
JsonNumericString(n) == [t |-> "numstr", s |-> "", n |-> n, o |-> <<>>]

JsonNumber(n) == [t |-> "num", s |-> "", n |-> n, o |-> <<>>]

JsonNull == [t |-> "null", s |-> "", n |-> 0, o |-> <<>>]

JsonObject(members) == [t |-> "obj", s |-> "", n |-> 0, o |-> members]

Member(key, val) == [tok |-> "member", key |-> key, val |-> val]

\* d[key] = val of a dict
Put(d, key, val) ==
    [k \in DOMAIN d \cup {key} |-> IF k = key THEN val ELSE d[k]]

EmptyDict == [k \in {} |-> JsonNull]

NoParse == [ok |-> FALSE, end |-> 0, dict |-> EmptyDict]

\* json.loads on the members of an object, from pos to its closing brace
RECURSIVE ParseMembers(_, _, _)
AfterInner(inner, tokens, pos, acc) ==
    IF inner.ok
    THEN ParseMembers(tokens, inner.end,
                      Put(acc, tokens[pos].key, JsonObject(inner.dict)))
    ELSE NoParse

ParseMembers(tokens, pos, acc) ==
    IF pos > Len(tokens) THEN NoParse
    ELSE IF tokens[pos].tok = "close"
    THEN [ok |-> TRUE, end |-> pos + 1, dict |-> acc]
    ELSE IF tokens[pos].tok # "member" THEN NoParse
    ELSE IF tokens[pos].val.t # "obj"
    THEN ParseMembers(tokens, pos + 1, Put(acc, tokens[pos].key, tokens[pos].val))
    ELSE IF pos + 1 <= Len(tokens) /\ tokens[pos + 1].tok = "open"
    THEN AfterInner(ParseMembers(tokens, pos + 2, EmptyDict), tokens, pos, acc)
    ELSE NoParse

\* json.loads(json_str) for a string that starts with a brace: the whole
\* string must be one object
WholeObject(parsed, json_str) ==
    IF parsed.ok /\ parsed.end = Len(json_str) + 1 THEN parsed ELSE NoParse

JsonLoads(json_str) == WholeObject(ParseMembers(json_str, 2, EmptyDict), json_str)

\* text.find('{'), 0 when there is none (positions count from 1)
RECURSIVE Find(_, _, _)
Find(text, tok, pos) ==
    IF pos > Len(text) THEN 0
    ELSE IF text[pos].tok = tok THEN pos
    ELSE Find(text, tok, pos + 1)

\* text.rfind('}'), 0 when there is none
RECURSIVE RFind(_, _, _)
RFind(text, tok, pos) ==
    IF pos < 1 THEN 0
    ELSE IF text[pos].tok = tok THEN pos
    ELSE RFind(text, tok, pos - 1)

RequiredFields == {"title", "start_date", "location"}

\* lines 105-109: float() of a number or a numeric string, 0.5 for anything
\* else
CoerceConfidence(result) ==
    IF "confidence" \notin DOMAIN result THEN result
    ELSE IF result["confidence"].t \in {"num", "numstr"}
    THEN Put(result, "confidence", JsonNumber(result["confidence"].n))
    ELSE Put(result, "confidence", JsonNumber(5))

AbsentAi == [found |-> FALSE, dict |-> EmptyDict]

\* lines 96-111
\* a variant without the required-field check of lines 97-102
ValidateParsedPartial(parsed) ==
    IF ~parsed.ok THEN AbsentAi
    ELSE [found |-> TRUE, dict |-> CoerceConfidence(parsed.dict)]

\* lines 94-111
ValidateParsed(parsed) ==
    IF ~parsed.ok THEN AbsentAi
    ELSE IF RequiredFields \ DOMAIN parsed.dict # {} THEN AbsentAi
    ELSE [found |-> TRUE, dict |-> CoerceConfidence(parsed.dict)]

\* lines 85-120
ParseJsonResponse(text) ==
    IF Find(text, "open", 1) >= 1
       /\ RFind(text, "close", Len(text)) + 1 > Find(text, "open", 1)
    THEN ValidateParsed(
             JsonLoads(SubSeq(text, Find(text, "open", 1),
                              RFind(text, "close", Len(text)))))
    ELSE AbsentAi

\* lines 31-44, the body of the try: json.dumps(current_info) in
\* _create_prompt, generate_content and the text property of the response
\* can each raise
AnalyzeBody(current_info, api, text) ==
    IF current_info = "unserialisable" \/ api \in {"call_raises", "text_raises"}
    THEN [found |-> FALSE, dict |-> EmptyDict, raised |-> TRUE]
    ELSE [found |-> ParseJsonResponse(text).found,
          dict |-> ParseJsonResponse(text).dict, raised |-> FALSE]

\* a variant without the handler of lines 46-48
AnalyzeEventUnguarded(current_info, api, text) ==
    AnalyzeBody(current_info, api, text)

\* lines 30-48: the handler of line 46 turns every exception into None
AnalyzeEvent(current_info, api, text) ==
    [AnalyzeBody(current_info, api, text) EXCEPT !.raised = FALSE]

\* dict.get(key) read as the strings _enhance_with_ai works with: None for
\* a missing key or null
GetString(d, key) ==
    IF key \notin DOMAIN d THEN "None"
    ELSE IF d[key].t = "null" THEN "None"
    ELSE d[key].s

\* ai_info.get("location", {}): anything but an object has no get()
GetLocation(d) ==
    IF "location" \in DOMAIN d /\ d["location"].t = "obj"
    THEN [obj |-> TRUE, place |-> GetString(d["location"].o, "place"),
          address |-> GetString(d["location"].o, "address")]
    ELSE [obj |-> FALSE, place |-> "None", address |-> "None"]

\* the result of analyze_event as _enhance_with_ai reads it
AiInfoOf(result) ==
    IF ~result.found THEN NoAiInfo
    ELSE [found |-> TRUE,
          brand |-> GetString(result.dict, "brand"),
          start_date |-> GetString(result.dict, "start_date"),
          end_date |-> GetString(result.dict, "end_date"),
          location |-> GetLocation(result.dict),
          has_confidence |-> "confidence" \in DOMAIN result.dict,
          confidence |-> IF "confidence" \in DOMAIN result.dict
                         THEN result.dict["confidence"].n ELSE 0,
          reasoning |-> GetString(result.dict, "reasoning")]

\* the members a response may hold for one key, none included
TitleMembers == {<<>>, <<Member("title", JsonString("Nike popup"))>>}

StartDateMembers == {<<>>, <<Member("start_date", JsonString("2024-04-01"))>>}

LocationMembers ==
    {<<>>,
     <<Member("location", JsonString("Seongsu"))>>,
     <<Member("location", JsonObject(<<>>)), Open,
       Member("place", JsonString("Daelim")), Close>>}

ConfidenceMembers ==
    {<<>>,
     <<Member("confidence", JsonNumber(8))>>,
     <<Member("confidence", JsonNumericString(8))>>,
     <<Member("confidence", JsonString("high"))>>,
     <<Member("confidence", JsonNull)>>}

Bodies ==
    {t \o d \o l \o c : t \in TitleMembers, d \in StartDateMembers,
                        l \in LocationMembers, c \in ConfidenceMembers}

\* the texts a response may be: the object alone, between prose, cut off
\* before its closing brace, after a stray closing brace, given twice, and
\* prose without any object
ResponseTexts ==
    UNION {{<<Open>> \o b \o <<Close>>,
            <<Prose, Open>> \o b \o <<Close, Prose>>,
            <<Prose, Open>> \o b,
            <<Close, Prose, Open>> \o b \o <<Close>>,
            <<Open>> \o b \o <<Close, Prose, Open>> \o b \o <<Close>>} :
              b \in Bodies}
    \cup {<<>>, <<Prose>>, <<Close, Prose>>}

CurrentInfos == {"none", "dict", "unserialisable"}

ApiOutcomes == {"ok", "call_raises", "text_raises"}

\* the preliminary events the result is applied to
EnhancedEvents ==
    {e \in PreliminaryEvents : e.period.obj /\ e.location.obj}

InitGemini ==
    /\ \E ci \in CurrentInfos, api \in ApiOutcomes, text \in ResponseTexts,
          event \in EnhancedEvents :
         gs = [pc |-> "ready", current_info |-> ci, api |-> api, text |-> text,
               event |-> event,
               result |-> [found |-> FALSE, dict |-> EmptyDict, raised |-> FALSE],
               enhanced |-> [status |-> "none", event |-> event]]
    /\ events = <<>>
    /\ runs = [r \in Runs |-> IdleRun]
    /\ ov = [pc |-> "idle"]
    /\ dx = [pc |-> "idle"]
    /\ pe = [pc |-> "idle"]
    /\ en = [pc |-> "idle"]
    /\ lx = [pc |-> "idle"]
    /\ rt = [pc |-> "idle"]
    /\ sm = [pc |-> "idle"]

\* event_processor.py line 104
CallAnalyzeEvent ==
    /\ gs.pc = "ready"
    /\ gs' = [gs EXCEPT !.pc = "analyzed",
                        !.result = AnalyzeEvent(gs.current_info, gs.api, gs.text)]
    /\ UNCHANGED <<events, runs, ov, dx, pe, en, lx, rt, sm>>

\* event_processor.py lines 106-118
UseAiInfo ==
    /\ gs.pc = "analyzed"
    /\ gs' = [gs EXCEPT !.pc = "done",
                        !.enhanced =
                            IF gs.result.raised
                            THEN [status |-> "raise", event |-> gs.event]
                            ELSE EnhanceWithAi(gs.event, AiInfoOf(gs.result))]
    /\ UNCHANGED <<events, runs, ov, dx, pe, en, lx, rt, sm>>

NextGemini == CallAnalyzeEvent \/ UseAiInfo

SpecGemini == InitGemini /\ [][NextGemini]_vars

\* ---------------------------------------------------------------------------
\* Properties of the AI enrichment
\* ---------------------------------------------------------------------------

\* the text between the first opening and the last closing brace, <<>> when
\* there is none
JsonBlock(text) ==
    IF Find(text, "open", 1) >= 1
       /\ RFind(text, "close", Len(text)) + 1 > Find(text, "open", 1)
    THEN SubSeq(text, Find(text, "open", 1), RFind(text, "close", Len(text)))
    ELSE <<>>

\* something in the call went wrong: the prompt could not be built, the model
\* call or the reading of its text raised, or the response holds no JSON
\* object that parses
CallFailed ==
    \/ gs.current_info = "unserialisable"
    \/ gs.api \in {"call_raises", "text_raises"}
    \/ ~JsonLoads(JsonBlock(gs.text)).ok

\* C17: analyze_event never raises; when building the prompt, calling the
\* model or parsing the response fails, its result is absent, and the event
\* it was called for goes on unchanged.
C17_EnrichmentAdvisory ==
    /\ gs.pc \in {"analyzed", "done"} =>
         /\ ~gs.result.raised
         /\ CallFailed => ~gs.result.found
    /\ (gs.pc = "done" /\ CallFailed) =>
         gs.enhanced = [status |-> "none", event |-> gs.event]

C17_Witness ==
    /\ gs.pc = "done"
    /\ gs.api = "call_raises"
    /\ gs.current_info = "dict"
    /\ JsonLoads(JsonBlock(gs.text)).ok
    /\ ~gs.result.found
    /\ ~gs.result.raised
    /\ gs.enhanced = [status |-> "none", event |-> gs.event]

\* C18: when the JSON object between the first opening and the last closing
\* brace parses but lacks title, start_date or location, the result of the
\* call is absent as a whole.
C18_RequiredFields ==
    (/\ gs.pc \in {"analyzed", "done"}
     /\ gs.current_info # "unserialisable"
     /\ gs.api = "ok"
     /\ JsonLoads(JsonBlock(gs.text)).ok
     /\ RequiredFields \ DOMAIN JsonLoads(JsonBlock(gs.text)).dict # {})
    => gs.result = [found |-> FALSE, dict |-> EmptyDict, raised |-> FALSE]

C18_Witness ==
    /\ gs.pc = "analyzed"
    /\ gs.api = "ok"
    /\ gs.current_info = "dict"
    /\ gs.text = <<Prose, Open, Member("title", JsonString("Nike popup")),
                   Member("start_date", JsonString("2024-04-01")),
                   Member("confidence", JsonNumber(8)), Close, Prose>>
    /\ JsonLoads(JsonBlock(gs.text)).ok
    /\ DOMAIN JsonLoads(JsonBlock(gs.text)).dict
         = {"title", "start_date", "confidence"}
    /\ ~gs.result.found


(***************************************************************************)
(* Event.to_dict and Event.from_dict (models/event.py).  A text is the    *)
(* sequence of its characters; strftime and strptime are modelled by what *)
(* they write and read.                                                    *)
(***************************************************************************)
DigitChar(n) == <<"0", "1", "2", "3", "4", "5", "6", "7", "8", "9">>[n + 1]

DigitValue(c) == CHOOSE n \in 0..9 : DigitChar(n) = c

\* str(n) for n >= 0
RECURSIVE Decimal(_)
Decimal(n) ==
    IF n < 10 THEN <<DigitChar(n)>>
    ELSE Decimal(n \div 10) \o <<DigitChar(n % 10)>>

\* n written with at least width digits
RECURSIVE ZeroPad(_, _)
ZeroPad(n, width) ==
    IF width <= 1 THEN Decimal(n)
    ELSE IF Len(Decimal(n)) >= width THEN Decimal(n)
    ELSE <<"0">> \o ZeroPad(n, width - 1)

\* a datetime attribute: None, or a naive datetime
NoneDatetime ==
    [none |-> TRUE, year |-> 0, month |-> 0, day |-> 0, hour |-> 0,
     minute |-> 0, second |-> 0, microsecond |-> 0]

Datetime(year, month, day, hour, minute, second, microsecond) ==
    [none |-> FALSE, year |-> year, month |-> month, day |-> day,
     hour |-> hour, minute |-> minute, second |-> second,
     microsecond |-> microsecond]

\* %Y of strftime: the C library pads the year to four digits or writes
\* it as it is, depending on the platform and the Python version
YearText(year, padded_year) ==
    IF padded_year THEN ZeroPad(year, 4) ELSE Decimal(year)

\* dt.strftime("%Y-%m-%d")
StrftimeDate(dt, padded_year) ==
    YearText(dt.year, padded_year) \o <<"-">> \o ZeroPad(dt.month, 2)
        \o <<"-">> \o ZeroPad(dt.day, 2)

\* dt.strftime("%Y-%m-%d %H:%M:%S")
StrftimeDateTime(dt, padded_year) ==
    StrftimeDate(dt, padded_year) \o <<" ">> \o ZeroPad(dt.hour, 2)
        \o <<":">> \o ZeroPad(dt.minute, 2) \o <<":">> \o ZeroPad(dt.second, 2)

DateFormat == <<"%Y", "-", "%m", "-", "%d">>

DateTimeFormat == DateFormat \o <<" ", "%H", ":", "%M", ":", "%S">>

\* the character at pos, "" past the end
At(text, pos) == IF pos \in 1..Len(text) THEN text[pos] ELSE ""

\* c is a digit between lo and hi
DigitIn(c, lo, hi) == c \in Digits /\ DigitValue(c) \in lo..hi

\* the number of characters the regular expression of a directive matches
\* at pos, 0 when it does not match; the alternatives are tried in the
\* order of _strptime.TimeRE.  A literal that is not a digit follows every
\* directive of the two formats, so a shorter alternative never succeeds
\* where the first matching one fails.
DirectiveLength(directive, text, pos) ==
    LET a == At(text, pos)
        b == At(text, pos + 1)
    IN
    CASE directive = "%Y" ->
           IF \A k \in 0..3 : At(text, pos + k) \in Digits THEN 4 ELSE 0
      [] directive = "%m" ->
           IF a = "1" /\ DigitIn(b, 0, 2) THEN 2
           ELSE IF a = "0" /\ DigitIn(b, 1, 9) THEN 2
           ELSE IF DigitIn(a, 1, 9) THEN 1 ELSE 0
      [] directive = "%d" ->
           IF a = "3" /\ DigitIn(b, 0, 1) THEN 2
           ELSE IF DigitIn(a, 1, 2) /\ DigitIn(b, 0, 9) THEN 2
           ELSE IF a = "0" /\ DigitIn(b, 1, 9) THEN 2
           ELSE IF DigitIn(a, 1, 9) THEN 1
           ELSE IF a = " " /\ DigitIn(b, 1, 9) THEN 2 ELSE 0
      [] directive = "%H" ->
           IF a = "2" /\ DigitIn(b, 0, 3) THEN 2
           ELSE IF DigitIn(a, 0, 1) /\ DigitIn(b, 0, 9) THEN 2
           ELSE IF DigitIn(a, 0, 9) THEN 1 ELSE 0
      [] directive = "%M" ->
           IF DigitIn(a, 0, 5) /\ DigitIn(b, 0, 9) THEN 2
           ELSE IF DigitIn(a, 0, 9) THEN 1 ELSE 0
      [] directive = "%S" ->
           IF a = "6" /\ DigitIn(b, 0, 1) THEN 2
           ELSE IF DigitIn(a, 0, 5) /\ DigitIn(b, 0, 9) THEN 2
           ELSE IF DigitIn(a, 0, 9) THEN 1 ELSE 0

\* int() of the matched characters; the day may start with a space
RECURSIVE IntOf(_)
IntOf(chars) ==
    IF chars = <<>> THEN 0
    ELSE IF chars[Len(chars)] = " " THEN 0
    ELSE 10 * IntOf(SubSeq(chars, 1, Len(chars) - 1))
         + DigitValue(chars[Len(chars)])

\* the spaces from pos on: a space of the format stands for \s+
RECURSIVE SpaceRun(_, _)
SpaceRun(text, pos) ==
    IF At(text, pos) = " " THEN 1 + SpaceRun(text, pos + 1) ELSE 0

NotParsed == [ok |-> FALSE, value |-> NoneDatetime]

\* the fields before a directive is read: 1900-01-01 00:00:00
StrptimeDefaults ==
    [d \in {"%Y", "%m", "%d", "%H", "%M", "%S"} |->
        IF d = "%Y" THEN 1900 ELSE IF d \in {"%m", "%d"} THEN 1 ELSE 0]

\* the datetime of the fields read; datetime() raises ValueError for a day
\* the month does not have, the year 0 and the seconds 60 and 61
DatetimeOfFields(found) ==
    IF ValidDate(found["%Y"], found["%m"], found["%d"]) /\ found["%S"] <= 59
    THEN [ok |-> TRUE,
          value |-> Datetime(found["%Y"], found["%m"], found["%d"],
                             found["%H"], found["%M"], found["%S"], 0)]
    ELSE NotParsed

\* datetime.strptime(text, format); ok is FALSE where it raises ValueError
RECURSIVE StrptimeFrom(_, _, _, _, _)
StrptimeFrom(text, pos, format, i, found) ==
    IF i > Len(format)
    THEN IF pos = Len(text) + 1 THEN DatetimeOfFields(found) ELSE NotParsed
    ELSE IF format[i] = " "
    THEN IF SpaceRun(text, pos) = 0 THEN NotParsed
         ELSE StrptimeFrom(text, pos + SpaceRun(text, pos), format, i + 1, found)
    ELSE IF format[i] \in {"-", ":"}
    THEN IF At(text, pos) # format[i] THEN NotParsed
         ELSE StrptimeFrom(text, pos + 1, format, i + 1, found)
    ELSE IF DirectiveLength(format[i], text, pos) = 0 THEN NotParsed
    ELSE StrptimeFrom(
             text, pos + DirectiveLength(format[i], text, pos), format, i + 1,
             [found EXCEPT ![format[i]] =
                 IntOf(SubSeq(text, pos,
                              pos + DirectiveLength(format[i], text, pos) - 1))])

Strptime(text, format) == StrptimeFrom(text, 1, format, 1, StrptimeDefaults)


\* a value of the record that is None or a str
NoneStr == [none |-> TRUE, s |-> <<>>]

Str(chars) == [none |-> FALSE, s |-> chars]

\* dict.get(key, default)
Get(d, key, default) == IF key \in DOMAIN d THEN d[key] ELSE default

\* lines 46-57: Event(title=title), every other field at its default;
\* collected_at is datetime.now()
DefaultEvent(title, now) ==
    [title |-> title,
     brand |-> "",
     period |-> [start_date |-> NoneDatetime, end_date |-> NoneDatetime],
     location |-> [place |-> Undetermined, address |-> Undetermined,
                   coordinates |-> [lat |-> 0, lng |-> 0], transit |-> ""],
     operating_hours |-> [start |-> "", end |-> ""],
     details |-> [introduction |-> <<>>, contents |-> <<>>,
                  visitor_info |-> <<>>],
     source_urls |-> <<>>,
     confidence |-> 0,
     collected_at |-> now]

\* lines 73-74: `strftime(...) if date else None`
DateOrNone(dt, padded_year) ==
    IF dt.none THEN NoneStr ELSE Str(StrftimeDate(dt, padded_year))

\* lines 67-94
ToDict(self, padded_year) ==
    [title |-> self.title,
     brand |-> self.brand,
     period |-> [start_date |-> DateOrNone(self.period.start_date, padded_year),
                 end_date |-> DateOrNone(self.period.end_date, padded_year)],
     location |-> [place |-> self.location.place,
                   address |-> self.location.address,
                   coordinates |-> self.location.coordinates,
                   transit |-> self.location.transit],
     operating_hours |-> [start |-> self.operating_hours.start,
                          end |-> self.operating_hours.end],
     details |-> [introduction |-> self.details.introduction,
                  contents |-> self.details.contents,
                  visitor_info |-> self.details.visitor_info],
     source_urls |-> self.source_urls,
     confidence |-> self.confidence,
     collected_at |-> Str(StrftimeDateTime(self.collected_at, padded_year))]

\* lines 106-107: `strptime(s, "%Y-%m-%d") if s else None`; None and the
\* empty string are false
PeriodDate(value) ==
    IF value.none \/ value.s = <<>> THEN [ok |-> TRUE, value |-> NoneDatetime]
    ELSE Strptime(value.s, DateFormat)

\* lines 102-107; raised when one of the two strptime calls raises
PeriodOfDict(data, event) ==
    IF "period" \notin DOMAIN data THEN [raised |-> FALSE, period |-> event.period]
    ELSE IF ~PeriodDate(Get(data.period, "start_date", NoneStr)).ok
    THEN [raised |-> TRUE, period |-> event.period]
    ELSE IF ~PeriodDate(Get(data.period, "end_date", NoneStr)).ok
    THEN [raised |-> TRUE,
          period |-> [event.period EXCEPT !.start_date =
                        PeriodDate(Get(data.period, "start_date", NoneStr)).value]]
    ELSE [raised |-> FALSE,
          period |->
            [start_date |-> PeriodDate(Get(data.period, "start_date", NoneStr)).value,
             end_date |-> PeriodDate(Get(data.period, "end_date", NoneStr)).value]]

\* lines 110-114
LocationOfDict(data, event) ==
    IF "location" \notin DOMAIN data THEN event.location
    ELSE [place |-> Get(data.location, "place", Undetermined),
          address |-> Get(data.location, "address", Undetermined),
          coordinates |-> Get(data.location, "coordinates", [lat |-> 0, lng |-> 0]),
          transit |-> Get(data.location, "transit", "")]

\* lines 119-121
OperatingHoursOfDict(data, event) ==
    IF "operating_hours" \notin DOMAIN data THEN event.operating_hours
    ELSE [start |-> Get(data.operating_hours, "start", ""),
          end |-> Get(data.operating_hours, "end", "")]

\* lines 123-126
DetailsOfDict(data, event) ==
    IF "details" \notin DOMAIN data THEN event.details
    ELSE [introduction |-> Get(data.details, "introduction", <<>>),
          contents |-> Get(data.details, "contents", <<>>),
          visitor_info |-> Get(data.details, "visitor_info", <<>>)]

\* lines 131-136: a text that does not parse leaves the default
CollectedAtOfDict(data, event) ==
    IF Get(data, "collected_at", NoneStr).none THEN event.collected_at
    ELSE IF data.collected_at.s = <<>> THEN event.collected_at
    ELSE IF Strptime(data.collected_at.s, DateTimeFormat).ok
    THEN Strptime(data.collected_at.s, DateTimeFormat).value
    ELSE event.collected_at

\* lines 96-138; now is the clock when the Event is constructed at line 99.
\* An exception of lines 106-107 leaves from_dict: there is no handler.
FromDict(data, now) ==
    IF PeriodOfDict(data, DefaultEvent(Get(data, "title", ""), now)).raised
    THEN [raised |-> TRUE, event |-> DefaultEvent(Get(data, "title", ""), now)]
    ELSE [raised |-> FALSE,
          event |->
            [title |-> Get(data, "title", ""),
             brand |-> Get(data, "brand", ""),
             period |-> PeriodOfDict(
                            data, DefaultEvent(Get(data, "title", ""), now)).period,
             location |-> LocationOfDict(
                              data, DefaultEvent(Get(data, "title", ""), now)),
             operating_hours |-> OperatingHoursOfDict(
                                     data, DefaultEvent(Get(data, "title", ""), now)),
             details |-> DetailsOfDict(
                             data, DefaultEvent(Get(data, "title", ""), now)),
             source_urls |-> Get(data, "source_urls", <<>>),
             confidence |-> Get(data, "confidence", 0),
             collected_at |-> CollectedAtOfDict(
                                  data, DefaultEvent(Get(data, "title", ""), now))]]


\* the clock at the call of from_dict
RecordNows ==
    {Datetime(2026, 11, 1, 2, 57, 10, 252651), Datetime(2026, 11, 2, 0, 0, 0, 0)}

\* period dates: at midnight, with a time of day, in a year of three digits
StartDates ==
    {NoneDatetime, Datetime(2024, 3, 5, 0, 0, 0, 0),
     Datetime(2024, 3, 5, 10, 30, 0, 0), Datetime(999, 12, 31, 0, 0, 0, 0)}

EndDates ==
    {NoneDatetime, Datetime(2024, 3, 9, 0, 0, 0, 0),
     Datetime(2025, 1, 4, 23, 59, 59, 0)}

\* collected_at: set on the second, and as datetime.now() gives it
CollectedAts ==
    {Datetime(2024, 3, 1, 9, 5, 7, 0), Datetime(2024, 3, 1, 9, 5, 7, 123456)}

\* an Event with every field but the dates set
PopulatedEvent(start_date, end_date, collected_at) ==
    [title |-> "Nike popup",
     brand |-> "Nike",
     period |-> [start_date |-> start_date, end_date |-> end_date],
     location |-> [place |-> "Daelim", address |-> "Seongsu 1",
                   coordinates |-> [lat |-> 37, lng |-> 127],
                   transit |-> "exit 3"],
     operating_hours |-> [start |-> "11:00", end |-> "20:00"],
     details |-> [introduction |-> <<"x", "y">>, contents |-> <<"c">>,
                  visitor_info |-> <<"v", "w">>],
     source_urls |-> <<"u1", "u2">>,
     confidence |-> 8,
     collected_at |-> collected_at]

\* the events given to to_dict: populated ones and ones left at the defaults
RecordEvents ==
    {PopulatedEvent(s, e, c) : s \in StartDates, e \in EndDates,
                               c \in CollectedAts}
    \cup {[DefaultEvent("Nike popup", c) EXCEPT
             !.period = [start_date |-> s, end_date |-> e]] :
            s \in StartDates, e \in EndDates, c \in CollectedAts}

\* what a record may hold as a date: well formed, without leading zeros,
\* with other separators, not a date at all, a day the month does not have,
\* with a time of day, the empty string and null
DateValues ==
    {Str(<<"2", "0", "2", "4", "-", "0", "3", "-", "0", "5">>),
     Str(<<"2", "0", "2", "4", "-", "3", "-", "5">>),
     Str(<<"2", "0", "2", "4", "/", "0", "3", "/", "0", "5">>),
     Str(<<"s", "o", "o", "n">>),
     Str(<<"2", "0", "2", "4", "-", "0", "2", "-", "3", "0">>),
     Str(<<"2", "0", "2", "4", "-", "0", "3", "-", "0", "5", " ", "1", "0",
           ":", "0", "0", ":", "0", "0">>),
     Str(<<>>),
     NoneStr}

\* a record as to_dict writes it
WrittenRecord ==
    ToDict(PopulatedEvent(Datetime(2024, 3, 5, 0, 0, 0, 0),
                          Datetime(2024, 3, 9, 0, 0, 0, 0),
                          Datetime(2024, 3, 1, 9, 5, 7, 0)), TRUE)

\* d without the key
Without(d, key) == [k \in DOMAIN d \ {key} |-> d[k]]

\* the records given to from_dict: written records whose dates were edited,
\* and records with keys left out
Records ==
    {[WrittenRecord EXCEPT !.period = [start_date |-> s, end_date |-> e]] :
        s \in DateValues, e \in DateValues}
    \cup {[WrittenRecord EXCEPT !.period = Without(WrittenRecord.period, k),
                                !.collected_at = c] :
            k \in {"start_date", "end_date"}, c \in DateValues}
    \cup {Without(WrittenRecord, k) : k \in DOMAIN WrittenRecord}
    \cup {[title |-> "Nike popup"]}

InitRecord ==
    /\ \/ \E event \in RecordEvents, padded_year \in BOOLEAN, now \in RecordNows :
            rt = [pc |-> "event", event |-> event, padded_year |-> padded_year,
                  now |-> now, data |-> [title |-> ""],
                  result |-> [raised |-> FALSE, event |-> DefaultEvent("", now)]]
       \/ \E data \in Records, now \in RecordNows :
            rt = [pc |-> "record", event |-> DefaultEvent("", now),
                  padded_year |-> TRUE, now |-> now, data |-> data,
                  result |-> [raised |-> FALSE, event |-> DefaultEvent("", now)]]
    /\ events = <<>>
    /\ runs = [r \in Runs |-> IdleRun]
    /\ ov = [pc |-> "idle"]
    /\ dx = [pc |-> "idle"]
    /\ pe = [pc |-> "idle"]
    /\ en = [pc |-> "idle"]
    /\ lx = [pc |-> "idle"]
    /\ gs = [pc |-> "idle"]
    /\ sm = [pc |-> "idle"]

\* event.to_dict()
CallToDict ==
    /\ rt.pc = "event"
    /\ rt' = [rt EXCEPT !.pc = "written",
                        !.data = ToDict(rt.event, rt.padded_year)]
    /\ UNCHANGED <<events, runs, ov, dx, pe, en, lx, gs, sm>>

\* Event.from_dict(data), of a record just written or of one read back
CallFromDict ==
    /\ rt.pc \in {"written", "record"}
    /\ rt' = [rt EXCEPT !.pc = IF rt.pc = "written" THEN "round_trip" ELSE "read",
                        !.result = FromDict(rt.data, rt.now)]
    /\ UNCHANGED <<events, runs, ov, dx, pe, en, lx, gs, sm>>

NextRecord == CallToDict \/ CallFromDict

SpecRecord == InitRecord /\ [][NextRecord]_vars


\* ---------------------------------------------------------------------------
\* Properties of the record conversion
\* ---------------------------------------------------------------------------

\* every field of the event holds a value of its own
FullyPopulated(event) ==
    /\ event.title # ""
    /\ event.brand # ""
    /\ ~event.period.start_date.none
    /\ ~event.period.end_date.none
    /\ event.location.place # Undetermined
    /\ event.location.address # Undetermined
    /\ event.location.transit # ""
    /\ event.operating_hours.start # ""
    /\ event.operating_hours.end # ""
    /\ event.details.introduction # <<>>
    /\ event.details.contents # <<>>
    /\ event.details.visitor_info # <<>>
    /\ event.source_urls # <<>>
    /\ ~event.collected_at.none

\* two dates are the same calendar day
SameDay(a, b) ==
    /\ a.none = b.none
    /\ a.year = b.year
    /\ a.month = b.month
    /\ a.day = b.day

\* the fields C19 names, compared as it names them
FieldByField(a, b) ==
    /\ a.title = b.title
    /\ a.brand = b.brand
    /\ SameDay(a.period.start_date, b.period.start_date)
    /\ SameDay(a.period.end_date, b.period.end_date)
    /\ a.location = b.location
    /\ a.operating_hours = b.operating_hours
    /\ a.details.introduction = b.details.introduction
    /\ a.details.contents = b.details.contents
    /\ a.details.visitor_info = b.details.visitor_info
    /\ a.source_urls = b.source_urls
    /\ a.confidence = b.confidence
    /\ a.collected_at = b.collected_at

\* C19: for a fully populated Event e, Event.from_dict(e.to_dict()) equals e
\* field by field: title, brand, the period dates by calendar day, location,
\* operating hours, the three details lists, source_urls, confidence and
\* collected_at.
C19_RoundTrip ==
    (rt.pc = "round_trip" /\ FullyPopulated(rt.event)) =>
        /\ ~rt.result.raised
        /\ FieldByField(rt.result.event, rt.event)

\* the value is a text that strptime does not read as YYYY-MM-DD
Unparseable(value) ==
    /\ ~value.none
    /\ value.s # <<>>
    /\ ~Strptime(value.s, DateFormat).ok

\* C20: when the start_date or end_date text of a record's period cannot be
\* parsed as YYYY-MM-DD, from_dict does not raise and the corresponding date
\* of the resulting Event is None.
C20_BadDatesDegrade ==
    (/\ rt.pc = "read"
     /\ "period" \in DOMAIN rt.data
     /\ \/ Unparseable(Get(rt.data.period, "start_date", NoneStr))
        \/ Unparseable(Get(rt.data.period, "end_date", NoneStr)))
    => /\ ~rt.result.raised
       /\ Unparseable(Get(rt.data.period, "start_date", NoneStr))
            => rt.result.event.period.start_date.none
       /\ Unparseable(Get(rt.data.period, "end_date", NoneStr))
            => rt.result.event.period.end_date.none


\* ---------------------------------------------------------------------------
\* Order of the dates returned by extract_dates
\* ---------------------------------------------------------------------------

\* C27: every date range returned by extract_dates is well ordered: its
\* start_date is on or before its end_date, whatever the pattern type.
C27_WellOrdered ==
    (dx.pc = "done" /\ dx.result.found) =>
        ~Before(dx.result.end_date, dx.result.start_date)


\* ---------------------------------------------------------------------------
\* Further properties of grouping and merging
\* ---------------------------------------------------------------------------

\* C26: after the merge of a group of two or more, every member of the group,
\* the base member and its details.introduction included, has the field
\* values it had before the call.
C26_InputsUntouched ==
    \A r \in Runs :
        runs[r].pc = "done"
        => \A g \in 1..Len(runs[r].groups) :
               Len(runs[r].groups[g]) >= 2
               => \A k \in 1..Len(runs[r].groups[g]) :
                      runs[r].heap[runs[r].groups[g][k]]
                          = events[runs[r].groups[g][k]]


\* member k of the group is the first one of greatest confidence
IsHighest(group, k) ==
    /\ \A j \in 1..Len(group) :
          events[group[j]].confidence <= events[group[k]].confidence
    /\ \A j \in 1..(k - 1) :
          events[group[j]].confidence < events[group[k]].confidence

\* the groups of two or more members whose merge built a new Event
MergedGroups(r) ==
    {g \in 1..Len(runs[r].groups) :
        Len(runs[r].groups[g]) >= 2 /\ ~runs[r].failed[g]}

\* C24: the merged candidate of a group of two or more takes title, brand,
\* period, operating hours and collected_at from the member of highest
\* confidence, the first such member on a tie, and its confidence is the
\* maximum over the group.
C24_BaseSelection ==
    \A r \in Runs :
        runs[r].pc = "done"
        => \A g \in MergedGroups(r) :
             \A k \in 1..Len(runs[r].groups[g]) :
               IsHighest(runs[r].groups[g], k)
               => /\ Returned(r)[g].title = events[runs[r].groups[g][k]].title
                  /\ Returned(r)[g].brand = events[runs[r].groups[g][k]].brand
                  /\ Returned(r)[g].period = events[runs[r].groups[g][k]].period
                  /\ Returned(r)[g].operating_hours
                       = events[runs[r].groups[g][k]].operating_hours
                  /\ Returned(r)[g].collected_at
                       = events[runs[r].groups[g][k]].collected_at
                  /\ Returned(r)[g].confidence
                       = events[runs[r].groups[g][k]].confidence
                  /\ \A j \in 1..Len(runs[r].groups[g]) :
                       events[runs[r].groups[g][j]].confidence
                         <= Returned(r)[g].confidence

C24_Witness ==
    /\ runs[1].pc = "done"
    /\ runs[1].groups = <<<<1, 2, 3>>>>
    /\ ~runs[1].failed[1]
    /\ events[1].confidence = 5 /\ events[1].collected_at = 1
    /\ events[2].confidence = 9 /\ events[2].collected_at = 2
    /\ events[3].confidence = 9 /\ events[3].collected_at = 1
    /\ Returned(1)[1].collected_at = 2
    /\ Returned(1)[1].brand = Nike
    /\ Returned(1)[1].period = EventPeriod(2, 4)
    /\ Returned(1)[1].operating_hours = "11-20"
    /\ Returned(1)[1].confidence = 9

\* the members of the group with a determinate address, by position
Determinate(group) ==
    {k \in 1..Len(group) : events[group[k]].location.address # Undetermined}

\* C25: the merged location is the base member's location, unless the base's
\* address is undetermined and some member has a determinate address: then
\* it is the whole location of the first such member in group order.
C25_LocationSelection ==
    \A r \in Runs :
        runs[r].pc = "done"
        => \A g \in MergedGroups(r) :
             \A k \in 1..Len(runs[r].groups[g]) :
               IsHighest(runs[r].groups[g], k)
               => IF /\ events[runs[r].groups[g][k]].location.address = Undetermined
                     /\ Determinate(runs[r].groups[g]) # {}
                  THEN \A d \in Determinate(runs[r].groups[g]) :
                         (\A e \in Determinate(runs[r].groups[g]) : d <= e)
                         => Returned(r)[g].location
                              = events[runs[r].groups[g][d]].location
                  ELSE Returned(r)[g].location
                         = events[runs[r].groups[g][k]].location

C25_Witness ==
    /\ runs[1].pc = "done"
    /\ runs[1].groups = <<<<1, 2, 3>>>>
    /\ ~runs[1].failed[1]
    /\ events[1].confidence = 9
    /\ events[1].location = EventLocation(Seongsu, Undetermined)
    /\ events[2].location = EventLocation(<<"d", "l">>, "addr1")
    /\ events[3].location = EventLocation(<<"s", "f">>, "addr2")
    /\ Returned(1)[1].location = EventLocation(<<"d", "l">>, "addr1")


\* the members of the groups before group g
Absorbed(groups, g) == UNION {Range(groups[h]) : h \in 1..(g - 1)}

\* C21: each group's first element is its reference, the earliest input
\* candidate not absorbed by an earlier group; every other member was judged
\* similar to that reference; and no candidate of a later group was judged
\* similar to the reference of an earlier group.
C21_GroupingByReference ==
    \A r \in Runs :
        (runs[r].pc = "done" /\ ~runs[r].caught)
        => \A g \in 1..Len(runs[r].groups) :
             /\ runs[r].groups[g][1] \in 1..Len(events)
             /\ runs[r].groups[g][1] \notin Absorbed(runs[r].groups, g)
             /\ \A i \in 1..(runs[r].groups[g][1] - 1) :
                    i \in Absorbed(runs[r].groups, g)
             /\ \A k \in 2..Len(runs[r].groups[g]) :
                    AreEventsSimilar(events[runs[r].groups[g][1]],
                                     events[runs[r].groups[g][k]]) = "True"
             /\ \A h \in (g + 1)..Len(runs[r].groups) :
                  \A k \in 1..Len(runs[r].groups[h]) :
                    AreEventsSimilar(events[runs[r].groups[g][1]],
                                     events[runs[r].groups[h][k]]) = "False"

C21_Witness ==
    /\ runs[1].pc = "done"
    /\ ~runs[1].caught
    /\ runs[1].groups = <<<<1, 3>>, <<2>>>>
    /\ AreEventsSimilar(events[1], events[3]) = "True"
    /\ AreEventsSimilar(events[1], events[2]) = "False"
    /\ AreEventsSimilar(events[2], events[3]) = "True"

RECURSIVE Flatten(_)
\* the groups one after the other
Flatten(groups) ==
    IF groups = <<>> THEN <<>> ELSE Head(groups) \o Flatten(Tail(groups))

\* C22: the groups are a partition of the input: every candidate occurrence
\* is in exactly one group, none lost, none duplicated, none invented; so
\* integrate_events returns one candidate per group and never more
\* candidates than it was given.
C22_Partition ==
    \A r \in Runs :
        runs[r].pc = "done"
        => /\ Len(runs[r].ret) <= Len(events)
           /\ ~runs[r].caught
              => /\ Len(Flatten(runs[r].groups)) = Len(events)
                 /\ Range(Flatten(runs[r].groups)) = 1..Len(events)
                 /\ \A g \in 1..Len(runs[r].groups) : runs[r].groups[g] # <<>>
                 /\ Len(runs[r].ret) = Len(runs[r].groups)

C22_Witness ==
    /\ runs[1].pc = "done"
    /\ ~runs[1].caught
    /\ Len(events) = 3
    /\ runs[1].groups = <<<<1>>, <<2, 3>>>>
    /\ Len(runs[1].ret) = 2
    /\ runs[1].ret[1] = 1


(***************************************************************************)
(* One application of _are_events_similar to two Event objects             *)
(***************************************************************************)
\* titles whose similarity to one another is 1, 0.8, 2/3, 0.5 or 0.4
SimilarTitles ==
    {TitleAbc, TitleAbcSpaced, TitleAbd, <<"a", "b">>, <<"a", "x">>}

\* periods: none, without dates, and with start dates 0, 2, 3 and 4 days apart
SimilarPeriods ==
    {NonePeriod, EventPeriod(NoDate, NoDate), EventPeriod(1, 3),
     EventPeriod(1, NoDate), EventPeriod(3, 5), EventPeriod(4, 6),
     EventPeriod(5, 6)}

\* the events compared: the two places have similarity 0.5
SimilarEvents ==
    {Event(t, b, p, EventLocation(l, Undetermined), <<>>, <<"u1">>, 5) :
        t \in SimilarTitles, b \in {<<>>, Nike, <<"a">>}, p \in SimilarPeriods,
        l \in {Seongsu, <<"s", "f">>}}

InitSimilar ==
    /\ \E event1 \in SimilarEvents, event2 \in SimilarEvents :
         sm = [pc |-> "ready", event1 |-> event1, event2 |-> event2,
               result |-> "False"]
    /\ events = <<>>
    /\ runs = [r \in Runs |-> IdleRun]
    /\ ov = [pc |-> "idle"]
    /\ dx = [pc |-> "idle"]
    /\ pe = [pc |-> "idle"]
    /\ en = [pc |-> "idle"]
    /\ lx = [pc |-> "idle"]
    /\ gs = [pc |-> "idle"]
    /\ rt = [pc |-> "idle"]

\* data_integrator.py line 63
CallAreEventsSimilar ==
    /\ sm.pc = "ready"
    /\ sm' = [sm EXCEPT !.pc = "done",
                        !.result = AreEventsSimilar(sm.event1, sm.event2)]
    /\ UNCHANGED <<events, runs, ov, dx, pe, en, lx, gs, rt>>

NextSimilar == CallAreEventsSimilar

SpecSimilar == InitSimilar /\ [][NextSimilar]_vars

\* ---------------------------------------------------------------------------
\* Properties of _are_events_similar
\* ---------------------------------------------------------------------------
TitleSimilarity == CalculateSimilarity(sm.event1.title, sm.event2.title)

PlaceSimilarity ==
    CalculateSimilarity(sm.event1.location.place, sm.event2.location.place)

BothHaveStartDates ==
    /\ sm.event1.period.start_date # NoDate
    /\ sm.event2.period.start_date # NoDate

\* (a) of C23
VerySimilarTitles == RatioAbove(TitleSimilarity, 7)

\* (b) of C23
SomewhatSimilarAndSamePeriod ==
    /\ RatioAbove(TitleSimilarity, 5)
    /\ BothHaveStartDates
    /\ \/ /\ sm.event1.period.start_date = sm.event2.period.start_date
          /\ sm.event1.period.end_date = sm.event2.period.end_date
       \/ /\ sm.event1.period.start_date
               <= EndOrStart(sm.event2.period)
          /\ sm.event2.period.start_date
               <= EndOrStart(sm.event1.period)
          /\ RatioAbove(PlaceSimilarity, 7)

\* (c) of C23
SameBrandCloseStart ==
    /\ sm.event1.brand # <<>>
    /\ sm.event1.brand = sm.event2.brand
    /\ BothHaveStartDates
    /\ sm.event1.period.start_date - sm.event2.period.start_date \in -3..3

\* C23: _are_events_similar(R, A) is true exactly when (a) the title
\* similarity is above 0.7, or (b) it is above 0.5 and both have start dates
\* and the dates match exactly or the ranges overlap with a place similarity
\* above 0.7, or (c) both brands are non-empty and equal and both start dates
\* are at most 3 days apart, whatever the title similarity; otherwise it is
\* false.
C23_SimilarityDecision ==
    (sm.pc = "done" /\ sm.result # "raise")
    => (sm.result = "True"
          <=> (VerySimilarTitles \/ SomewhatSimilarAndSamePeriod
                 \/ SameBrandCloseStart))

C23_Witness ==
    /\ sm.pc = "done"
    /\ sm.event1.title = <<"a", "b">>
    /\ sm.event2.title = <<"a", "x">>
    /\ ~RatioAbove(TitleSimilarity, 5)
    /\ sm.event1.brand = Nike /\ sm.event2.brand = Nike
    /\ sm.event1.period = EventPeriod(1, 3)
    /\ sm.event2.period = EventPeriod(4, 6)
    /\ sm.result = "True"


====
